---- MODULE Spec2Model ----
(***************************************************************************)
(* A model of the CDCL dependency solver of rattler_libsolv_rs             *)
(* (crates/rattler_libsolv_rs/src/solver/mod.rs and decision_map.rs).      *)
(*                                                                         *)
(* Solvable ids are 0..n (0 is the root), clause ids are 0-based indices   *)
(* into the clause list (clause id c is clauses[c + 1]), Null is the null  *)
(* clause id / null solvable id that ends a watch chain.                   *)
(***************************************************************************)
EXTENDS Integers, Sequences, FiniteSets, TLC

Null == -1

Root == 0

InstallRootId == 0

(***************************************************************************)
(* Bounds of the model.                                                    *)
(***************************************************************************)
\* analyze is not entered once this many clauses have been learnt in a solve
MaxLearnt == 6

\* the bits of a decision level in the model, for the 32 bits of u32
LevelBits == 4

(***************************************************************************)
(* Generic sequence helpers.                                               *)
(***************************************************************************)
Range(seq) == {seq[i] : i \in DOMAIN seq}

Last(seq) == seq[Len(seq)]

Front(seq) == SubSeq(seq, 1, Len(seq) - 1)

Max(a, b) == IF a >= b THEN a ELSE b

\* index of the first occurrence of x in seq, 0 when absent
RECURSIVE PositionFrom(_, _, _)
PositionFrom(seq, x, i) ==
    IF i > Len(seq) THEN 0
    ELSE IF seq[i] = x THEN i
    ELSE PositionFrom(seq, x, i + 1)

Position(seq, x) == PositionFrom(seq, x, 1)

(***************************************************************************)
(* The test suite's version system (mod.rs, mod test): a package version   *)
(* is an integer (Pack), a version set is a name with an optional          *)
(* half-open range of versions (Spec).                                     *)
(***************************************************************************)
\* "name": any version
SpecAny(n) == [name |-> n, any |-> TRUE, lo |-> 0, hi |-> 0]

\* "name lo..hi"
SpecRange(n, lo, hi) == [name |-> n, any |-> FALSE, lo |-> lo, hi |-> hi]

\* "name v" is the range v..v+1
SpecOne(n, v) == SpecRange(n, v, v + 1)

\* impl VersionSet for Spec: contains
Contains(vs, v) == vs.any \/ (vs.lo <= v /\ v < vs.hi)

(***************************************************************************)
(* The pool.  pool.name[s], pool.version[s], pool.deps[s] and              *)
(* pool.constrains[s] describe package solvable s (1..n); the root's       *)
(* dependencies are the install jobs.                                      *)
(***************************************************************************)
Pkg(n, v, deps, cons) == [name |-> n, version |-> v, deps |-> deps, constrains |-> cons]

MkPool(pkgs) ==
    [name       |-> [i \in DOMAIN pkgs |-> pkgs[i].name],
     version    |-> [i \in DOMAIN pkgs |-> pkgs[i].version],
     deps       |-> [i \in DOMAIN pkgs |-> pkgs[i].deps],
     constrains |-> [i \in DOMAIN pkgs |-> pkgs[i].constrains]]

NumSolvables(p) == Len(p.name) + 1

Solvables(p) == 0 .. Len(p.name)

Packages(p) == 1 .. Len(p.name)

Names(p) == Range(p.name)

\* pool.packages_by_name: the solvables of a name in the order they were added
PackagesByName(p, n) ==
    LET Test(s) == p.name[s] = n
    IN  SelectSeq([i \in 1 .. Len(p.name) |-> i], Test)

\* pool.find_matching_solvables
FindMatchingSolvables(p, vs) ==
    LET Test(s) == Contains(vs, p.version[s])
    IN  SelectSeq(PackagesByName(p, vs.name), Test)

\* pool.find_unmatched_solvables
FindUnmatchedSolvables(p, vs) ==
    LET Test(s) == ~Contains(vs, p.version[s])
    IN  SelectSeq(PackagesByName(p, vs.name), Test)

(***************************************************************************)
(* BundleBoxProvider::sort_candidates: a stable sort, highest version      *)
(* first.                                                                  *)
(***************************************************************************)
RECURSIVE InsertByVersion(_, _, _)
InsertByVersion(p, sorted, x) ==
    IF sorted = <<>> THEN <<x>>
    ELSE IF p.version[Head(sorted)] >= p.version[x]
         THEN <<Head(sorted)>> \o InsertByVersion(p, Tail(sorted), x)
         ELSE <<x>> \o sorted

RECURSIVE SortCandidates(_, _)
SortCandidates(p, seq) ==
    IF seq = <<>> THEN <<>>
    ELSE InsertByVersion(p, SortCandidates(p, Front(seq)), Last(seq))

\* candidates[0..=pos].rotate_right(1), pos a 1-based position
RotateToFront(seq, pos) ==
    <<seq[pos]>> \o SubSeq(seq, 1, pos - 1) \o SubSeq(seq, pos + 1, Len(seq))

(***************************************************************************)
(* decision_map.rs: DecisionAndLevel packs value and level in one signed   *)
(* integer; Option<bool> is modelled as <<>> (None) or <<v>> (Some(v)).    *)
(***************************************************************************)
None == <<>>

Some(v) == <<v>>

Undecided == 0

\* the number of values of a level (u32), with LevelBits bits for its 32; the
\* packed integer (i64) has twice the bits, so that level as i64 and its
\* negation are exact
LevelRange == 2 ^ LevelBits

\* DecisionAndLevel::new with the level cast to a signed integer of the
\* level's own width, where the upper half of the levels turns negative
DecisionAndLevelNewNarrow(value, level) ==
    LET l == IF level >= LevelRange \div 2 THEN level - LevelRange ELSE level
    IN  IF value THEN l ELSE 0 - l

\* DecisionAndLevel::new
DecisionAndLevelNew(value, level) == IF value THEN level ELSE 0 - level

\* DecisionAndLevel::value
DecisionAndLevelValue(d) ==
    IF d < 0 THEN Some(FALSE) ELSE IF d = 0 THEN None ELSE Some(TRUE)

\* DecisionAndLevel::level: unsigned_abs() as u32, the cast keeps the low bits
DecisionAndLevelLevel(d) == (IF d < 0 THEN 0 - d ELSE d) % LevelRange

\* DecisionMap::reset leaving the entry as it is
MapResetNone(map, s) == map

\* DecisionMap::reset
MapReset(map, s) == [map EXCEPT ![s] = Undecided]

\* DecisionMap::set
MapSet(map, s, value, level) == [map EXCEPT ![s] = DecisionAndLevelNew(value, level)]

\* DecisionMap::level
MapLevel(map, s) == DecisionAndLevelLevel(map[s])

\* DecisionMap::value
MapValue(map, s) == DecisionAndLevelValue(map[s])

(***************************************************************************)
(* The decision tracker: [map, stack, propagate_index].                    *)
(***************************************************************************)
Decision(s, value, derived_from) ==
    [solvable_id |-> s, value |-> value, derived_from |-> derived_from]

\* DecisionTracker::new / clear
TrackerNew(n) ==
    [map |-> [s \in 0 .. n - 1 |-> Undecided], stack |-> <<>>, propagate_index |-> 0]

AssignedValue(t, s) == MapValue(t.map, s)

Level(t, s) == MapLevel(t.map, s)

\* TryAddDecision recording a decision again when the solvable already has
\* the value
TryAddDecisionRepeating(t, d, level) ==
    LET cur == MapValue(t.map, d.solvable_id)
    IN  IF cur = None \/ cur = Some(d.value)
        THEN [ok |-> TRUE, changed |-> TRUE,
              t  |-> [t EXCEPT !.map = MapSet(t.map, d.solvable_id, d.value, level),
                               !.stack = Append(t.stack, d)]]
        ELSE [ok |-> FALSE, changed |-> FALSE, t |-> t]

\* try_add_decision: ok = FALSE is the Err(()) of a solvable decided to the
\* opposite value; changed tells whether the decision was recorded
TryAddDecision(t, d, level) ==
    LET cur == MapValue(t.map, d.solvable_id)
    IN  IF cur = None
        THEN [ok |-> TRUE, changed |-> TRUE,
              t  |-> [t EXCEPT !.map = MapSet(t.map, d.solvable_id, d.value, level),
                               !.stack = Append(t.stack, d)]]
        ELSE IF cur = Some(d.value)
        THEN [ok |-> TRUE, changed |-> FALSE, t |-> t]
        ELSE [ok |-> FALSE, changed |-> FALSE, t |-> t]

\* undo_last leaving the propagation cursor where it is
UndoLastKeepingCursor(t) ==
    LET d == Last(t.stack)
    IN  [decision |-> d,
         level    |-> MapLevel(t.map, d.solvable_id),
         t        |-> [map |-> MapReset(t.map, d.solvable_id),
                       stack |-> Front(t.stack),
                       propagate_index |-> t.propagate_index]]

\* undo_last: pops the top decision, resets its map entry, rewinds the
\* propagation cursor to the end of the surviving stack
UndoLast(t) ==
    LET d == Last(t.stack)
    IN  [decision |-> d,
         level    |-> MapLevel(t.map, d.solvable_id),
         t        |-> [map |-> MapReset(t.map, d.solvable_id),
                       stack |-> Front(t.stack),
                       propagate_index |-> Len(t.stack) - 1]]

\* undo_until
RECURSIVE UndoUntil(_, _)
UndoUntil(t, level) ==
    IF t.stack = <<>> THEN t
    ELSE IF MapLevel(t.map, Last(t.stack).solvable_id) <= level THEN t
    ELSE UndoUntil(UndoLast(t).t, level)

(***************************************************************************)
(* Literals and clauses.                                                   *)
(***************************************************************************)
Literal(s, negate) == [solvable_id |-> s, negate |-> negate]

\* Literal::satisfying_value
SatisfyingValue(lit) == ~lit.negate

\* Literal::eval
Eval(lit, map) ==
    LET v == MapValue(map, lit.solvable_id)
    IN  IF v = None THEN None ELSE Some(IF lit.negate THEN ~v[1] ELSE v[1])

NoSpec == SpecRange(0, 0, 0)

\* the kinds of Clause; a and b are the solvables of the kind, vs its version
\* set, learnt its LearntClauseId
ClauseInstallRoot == [kind |-> "InstallRoot", a |-> Root, b |-> Null, vs |-> NoSpec, learnt |-> Null]

ClauseRequires(a, vs) == [kind |-> "Requires", a |-> a, b |-> Null, vs |-> vs, learnt |-> Null]

ClauseForbid(a, b) == [kind |-> "ForbidMultipleInstances", a |-> a, b |-> b, vs |-> NoSpec, learnt |-> Null]

ClauseLock(locked, other) == [kind |-> "Lock", a |-> locked, b |-> other, vs |-> NoSpec, learnt |-> Null]

ClauseConstrains(a, b, vs) == [kind |-> "Constrains", a |-> a, b |-> b, vs |-> vs, learnt |-> Null]

ClauseLearnt(id) == [kind |-> "Learnt", a |-> Null, b |-> Null, vs |-> NoSpec, learnt |-> id]

\* the sorted candidates cached for a version set (empty when not cached)
Candidates(cands, vs) == IF vs \in DOMAIN cands THEN cands[vs] ELSE <<>>

\* Clause::visit_literals: the literals of a clause, in visiting order.  A
\* Lock(locked, other) clause forbids `other` whenever the root is installed.
Literals(kind, learnt_clauses, cands) ==
    CASE kind.kind = "InstallRoot" -> <<Literal(Root, FALSE)>>
      [] kind.kind = "Requires" ->
            <<Literal(kind.a, TRUE)>> \o
            [i \in 1 .. Len(Candidates(cands, kind.vs)) |->
                Literal(Candidates(cands, kind.vs)[i], FALSE)]
      [] kind.kind \in {"ForbidMultipleInstances", "Constrains"} ->
            <<Literal(kind.a, TRUE), Literal(kind.b, TRUE)>>
      [] kind.kind = "Lock" -> <<Literal(Root, TRUE), Literal(kind.b, TRUE)>>
      [] kind.kind = "Learnt" -> learnt_clauses[kind.learnt + 1]

\* Clause::initial_watches: the two solvables a new clause watches, or
\* <<Null, Null>> for a clause with fewer than two literals
InitialWatches(kind, learnt_clauses, cands) ==
    LET lits == Literals(kind, learnt_clauses, cands)
    IN  CASE kind.kind = "InstallRoot" -> <<Null, Null>>
          [] kind.kind = "Requires" ->
                IF Len(lits) < 2 THEN <<Null, Null>>
                ELSE <<lits[1].solvable_id, lits[2].solvable_id>>
          [] kind.kind \in {"ForbidMultipleInstances", "Constrains", "Lock"} ->
                <<lits[1].solvable_id, lits[2].solvable_id>>
          [] kind.kind = "Learnt" ->
                IF Len(lits) < 2 THEN <<Null, Null>>
                ELSE <<lits[1].solvable_id, Last(lits).solvable_id>>

\* ClauseState::new
ClauseStateNew(kind, learnt_clauses, cands) ==
    [kind |-> kind,
     watched_literals |-> InitialWatches(kind, learnt_clauses, cands),
     next_watches |-> <<Null, Null>>]

\* ClauseState::has_watches
HasWatches(clause) == clause.watched_literals[1] # Null

\* ClauseState::next_watched_clause
NextWatchedClause(clause, pkg) ==
    IF clause.watched_literals[1] = pkg THEN clause.next_watches[1]
    ELSE clause.next_watches[2]

\* the literal of the clause that watch slot i (1 or 2) stands for
WatchedLiteral(clause, i, learnt_clauses, cands) ==
    LET lits == Literals(clause.kind, learnt_clauses, cands)
        s    == clause.watched_literals[i]
        idx  == CHOOSE k \in 1 .. Len(lits) :
                    /\ lits[k].solvable_id = s
                    /\ \A j \in 1 .. k - 1 : lits[j].solvable_id # s
    IN  lits[idx]

\* ClauseState::watch_turned_false: 0 when neither watched literal of pkg is
\* false, otherwise the slot (1 or 2) of the watched literal that is
WatchTurnedFalse(clause, pkg, map, learnt_clauses, cands) ==
    LET w1 == WatchedLiteral(clause, 1, learnt_clauses, cands)
        w2 == WatchedLiteral(clause, 2, learnt_clauses, cands)
    IN  IF pkg = w1.solvable_id /\ Eval(w1, map) = Some(FALSE) THEN 1
        ELSE IF pkg = w2.solvable_id /\ Eval(w2, map) = Some(FALSE) THEN 2
        ELSE 0

\* ClauseState::next_unwatched_variable: the solvable of the first literal
\* that is not watched and not false, Null when there is none
NextUnwatchedVariable(clause, learnt_clauses, cands, map) ==
    LET lits == Literals(clause.kind, learnt_clauses, cands)
        CanWatch(l) == /\ l.solvable_id # clause.watched_literals[1]
                       /\ l.solvable_id # clause.watched_literals[2]
                       /\ Eval(l, map) # Some(FALSE)
        ok == {k \in 1 .. Len(lits) : CanWatch(lits[k])}
    IN  IF clause.kind.kind \in {"ForbidMultipleInstances", "Constrains", "Lock"} \/ ok = {}
        THEN Null
        ELSE lits[CHOOSE k \in ok : \A j \in ok : k <= j].solvable_id

(***************************************************************************)
(* The watch map: watches[s] is the first clause of the chain of s, the    *)
(* rest of the chain is linked through the clauses' next_watches.          *)
(***************************************************************************)
WatchMapNew(n) == [s \in 0 .. n - 1 |-> Null]

\* WatchMap::first_clause_watching_solvable
FirstClauseWatchingSolvable(watches, s) == watches[s]

\* WatchMap::start_watching: links the clause in front of both chains;
\* the result is the updated [watches, clause]
StartWatching(watches, clause, clause_id) ==
    LET w1 == clause.watched_literals[1]
        w2 == clause.watched_literals[2]
        n1 == watches[w1]
        m1 == [watches EXCEPT ![w1] = clause_id]
        n2 == m1[w2]
        m2 == [m1 EXCEPT ![w2] = clause_id]
    IN  [watches |-> m2, clause |-> [clause EXCEPT !.next_watches = <<n1, n2>>]]

\* ClauseState::unlink_clause, on the predecessor in the chain of pkg
UnlinkClause(pred, linked, pkg, watch_index) ==
    IF pred.watched_literals[1] = pkg
    THEN [pred EXCEPT !.next_watches[1] = linked.next_watches[watch_index]]
    ELSE [pred EXCEPT !.next_watches[2] = linked.next_watches[watch_index]]

\* WatchMap::update_watched: moves watch slot watch_index of clause clause_id
\* from the chain of from_pkg to the head of the chain of to_pkg; pred_id is
\* the predecessor in the chain of from_pkg or Null
UpdateWatched(watches, cls, pred_id, clause_id, watch_index, from_pkg, to_pkg) ==
    LET clause == cls[clause_id + 1]
        cls1 == IF pred_id # Null
                THEN [cls EXCEPT ![pred_id + 1] =
                        UnlinkClause(cls[pred_id + 1], clause, from_pkg, watch_index)]
                ELSE cls
        w1   == IF pred_id # Null THEN watches
                ELSE [watches EXCEPT ![from_pkg] = clause.next_watches[watch_index]]
        moved == [cls1[clause_id + 1] EXCEPT
                     !.watched_literals[watch_index] = to_pkg,
                     !.next_watches[watch_index] = w1[to_pkg]]
    IN  [watches |-> [w1 EXCEPT ![to_pkg] = clause_id],
         clauses |-> [cls1 EXCEPT ![clause_id + 1] = moved]]

(***************************************************************************)
(* Solver::solve, the clause builder.                                      *)
(***************************************************************************)
\* favored_map.get(name): the last favored solvable of that name, or Null
RECURSIVE FavoredFor(_, _, _)
FavoredFor(p, favor, n) ==
    IF favor = <<>> THEN Null
    ELSE IF p.name[Last(favor)] = n THEN Last(favor)
    ELSE FavoredFor(p, Front(favor), n)

\* SortedCandidates without the rotation of the favored solvable
SortedCandidatesUnfavored(p, favor, dep) == SortCandidates(p, FindMatchingSolvables(p, dep))

\* SortedCandidates keeping only the favored solvable where one matches
SortedCandidatesOnlyFavored(p, favor, dep) ==
    LET sorted  == SortCandidates(p, FindMatchingSolvables(p, dep))
        favored == FavoredFor(p, favor, dep.name)
    IN  IF favored = Null \/ Position(sorted, favored) = 0 THEN sorted ELSE <<favored>>

\* the candidates cached for a dependency: the matching solvables, sorted by
\* the provider, with the favored solvable of the name rotated to the front
SortedCandidates(p, favor, dep) ==
    LET sorted  == SortCandidates(p, FindMatchingSolvables(p, dep))
        favored == FavoredFor(p, favor, dep.name)
        pos     == IF favored = Null THEN 0 ELSE Position(sorted, favored)
    IN  IF pos = 0 THEN sorted ELSE RotateToFront(sorted, pos)

\* dependencies and constrains of a solvable; the root's are the install jobs
DepsOf(p, install, s) == IF s = Root THEN install ELSE p.deps[s]

ConstrainsOf(p, s) == IF s = Root THEN <<>> ELSE p.constrains[s]

\* pushes the candidates not visited yet
RECURSIVE PushCandidates(_, _)
PushCandidates(b, cs) ==
    IF cs = <<>> THEN b
    ELSE IF Head(cs) \in b.visited THEN PushCandidates(b, Tail(cs))
    ELSE PushCandidates([b EXCEPT !.visited = @ \cup {Head(cs)},
                                  !.stack = Append(@, Head(cs))], Tail(cs))

\* "Enqueue the candidates of the dependencies"
RECURSIVE EnqueueDeps(_, _, _, _)
EnqueueDeps(p, favor, b, deps) ==
    IF deps = <<>> THEN b
    ELSE LET dep == Head(deps)
             b1  == IF dep \in b.seen_requires THEN b
                    ELSE [b EXCEPT !.seen_requires = @ \cup {dep},
                                   !.cands = (dep :> SortedCandidates(p, favor, dep)) @@ @]
         IN  EnqueueDeps(p, favor, PushCandidates(b1, Candidates(b1.cands, dep)), Tail(deps))

\* PushRequires with a clause for the first entry of the dependency list only
PushRequiresFirstOnly(b, s, deps) ==
    IF deps = <<>> THEN b
    ELSE [b EXCEPT !.clauses =
             Append(@, ClauseStateNew(ClauseRequires(s, Head(deps)), <<>>, b.cands))]

\* one Requires clause per dependency
RECURSIVE PushRequires(_, _, _)
PushRequires(b, s, deps) ==
    IF deps = <<>> THEN b
    ELSE PushRequires(
            [b EXCEPT !.clauses =
                Append(@, ClauseStateNew(ClauseRequires(s, Head(deps)), <<>>, b.cands))],
            s, Tail(deps))

\* PushConstrainsFor with the loop over the forbidden solvables left out
PushConstrainsForNone(b, s, dep, forbidden) == b

RECURSIVE PushConstrainsFor(_, _, _, _)
PushConstrainsFor(b, s, dep, forbidden) ==
    IF forbidden = <<>> THEN b
    ELSE PushConstrainsFor(
            [b EXCEPT !.clauses =
                Append(@, ClauseStateNew(ClauseConstrains(s, Head(forbidden), dep), <<>>, b.cands))],
            s, dep, Tail(forbidden))

\* one Constrains clause per solvable that does not match a constrains entry
RECURSIVE PushConstrains(_, _, _, _)
PushConstrains(p, b, s, cons) ==
    IF cons = <<>> THEN b
    ELSE LET dep == Head(cons)
             b1  == IF dep \in b.seen_forbidden THEN b
                    ELSE [b EXCEPT !.seen_forbidden = @ \cup {dep},
                                   !.forbidden = (dep :> FindUnmatchedSolvables(p, dep)) @@ @]
         IN  PushConstrains(p, PushConstrainsFor(b1, s, dep, Candidates(b1.forbidden, dep)),
                            s, Tail(cons))

\* add_clauses_for_root_deps: the depth-first walk from the root
RECURSIVE BuildWalk(_, _, _, _)
BuildWalk(p, install, favor, b) ==
    IF b.stack = <<>> THEN b
    ELSE LET s  == Last(b.stack)
             b0 == [b EXCEPT !.stack = Front(@)]
             b1 == EnqueueDeps(p, favor, b0, DepsOf(p, install, s))
             b2 == PushRequires(b1, s, DepsOf(p, install, s))
             b3 == PushConstrains(p, b2, s, ConstrainsOf(p, s))
         IN  BuildWalk(p, install, favor, b3)

\* AddClausesForRootDeps starting the walk with every solvable of the pool on
\* the stack
AddClausesForAllSolvables(p, install, favor, cls) ==
    BuildWalk(p, install, favor,
              [stack |-> [i \in 1 .. Len(p.name) |-> i] \o <<Root>>, visited |-> Packages(p),
               seen_requires |-> {}, seen_forbidden |-> {}, cands |-> <<>>, forbidden |-> <<>>,
               clauses |-> cls])

AddClausesForRootDeps(p, install, favor, cls) ==
    BuildWalk(p, install, favor,
              [stack |-> <<Root>>, visited |-> {}, seen_requires |-> {},
               seen_forbidden |-> {}, cands |-> <<>>, forbidden |-> <<>>,
               clauses |-> cls])

\* the names of the pool in the order add_package interned them: a package's
\* name, then the names of its dependencies and of its constrains
RECURSIVE InternAll(_, _)
InternAll(acc, names) ==
    IF names = <<>> THEN acc
    ELSE InternAll(IF Head(names) \in Range(acc) THEN acc ELSE Append(acc, Head(names)),
                   Tail(names))

SpecNames(specs) == [i \in DOMAIN specs |-> specs[i].name]

RECURSIVE NameOrderFrom(_, _, _)
NameOrderFrom(p, i, acc) ==
    IF i > Len(p.name) THEN acc
    ELSE NameOrderFrom(p, i + 1,
            InternAll(acc, <<p.name[i]>> \o SpecNames(p.deps[i]) \o SpecNames(p.constrains[i])))

NameOrder(p) == NameOrderFrom(p, 1, <<>>)

\* ForbidPairs with the loop over the other candidates left out
ForbidPairsNone(cs, i, j) == <<>>

\* "Each candidate gets a clause with each other candidate"
RECURSIVE ForbidPairs(_, _, _)
ForbidPairs(cs, i, j) ==
    IF i > Len(cs) THEN <<>>
    ELSE IF j > Len(cs) THEN ForbidPairs(cs, i + 1, i + 2)
    ELSE <<ClauseStateNew(ClauseForbid(cs[i], cs[j]), <<>>, <<>>)>> \o ForbidPairs(cs, i, j + 1)

RECURSIVE ForbidClauses(_, _)
ForbidClauses(p, names) ==
    IF names = <<>> THEN <<>>
    ELSE ForbidPairs(PackagesByName(p, Head(names)), 1, 2) \o ForbidClauses(p, Tail(names))

\* LockClausesFor with the comparison of the candidate to the locked solvable
\* inverted
RECURSIVE LockClausesForSame(_, _)
LockClausesForSame(locked, others) ==
    IF others = <<>> THEN <<>>
    ELSE (IF Head(others) = locked
          THEN <<ClauseStateNew(ClauseLock(locked, Head(others)), <<>>, <<>>)>>
          ELSE <<>>) \o LockClausesForSame(locked, Tail(others))

\* "For each locked solvable, forbid other solvables with the same name"
RECURSIVE LockClausesFor(_, _)
LockClausesFor(locked, others) ==
    IF others = <<>> THEN <<>>
    ELSE (IF Head(others) # locked
          THEN <<ClauseStateNew(ClauseLock(locked, Head(others)), <<>>, <<>>)>>
          ELSE <<>>) \o LockClausesFor(locked, Tail(others))

\* LockClauses with the loop over the locked solvables left out
LockClausesNone(p, lock) == <<>>

RECURSIVE LockClauses(_, _)
LockClauses(p, lock) ==
    IF lock = <<>> THEN <<>>
    ELSE LockClausesFor(Head(lock), PackagesByName(p, p.name[Head(lock)]))
         \o LockClauses(p, Tail(lock))

\* make_watches: links every clause that has watches into its two chains
RECURSIVE MakeWatches(_, _, _)
MakeWatches(watches, cls, i) ==
    IF i > Len(cls) THEN [watches |-> watches, clauses |-> cls]
    ELSE IF ~HasWatches(cls[i]) THEN MakeWatches(watches, cls, i + 1)
    ELSE LET r == StartWatching(watches, cls[i], i - 1)
         IN  MakeWatches(r.watches, [cls EXCEPT ![i] = r.clause], i + 1)

\* the clause list and caches solve builds before make_watches
BuildClauses(p, jobs) ==
    LET b == AddClausesForRootDeps(p, jobs.install, jobs.favor,
                 <<ClauseStateNew(ClauseInstallRoot, <<>>, <<>>)>>)
    IN  [clauses   |-> b.clauses \o ForbidClauses(p, NameOrder(p)) \o LockClauses(p, jobs.lock),
         cands     |-> b.cands,
         forbidden |-> b.forbidden]

(***************************************************************************)
(* Solver::analyze_unsolvable.                                             *)
(***************************************************************************)
\* AnalyzeUnsolvableClause adding a learnt clause as it adds any other
AnalyzeUnsolvableClauseKeepingLearnt(cls, why, start, clause_id, acc) ==
    [acc EXCEPT !.problem = @ \cup {clause_id}]

\* analyze_unsolvable_clause: adds clause_id to the problem, or, for a
\* learnt clause, the clauses it was learnt from; acc is [problem, seen]
RECURSIVE AnalyzeUnsolvableClause(_, _, _, _, _)
RECURSIVE AnalyzeUnsolvableCauses(_, _, _, _, _)
AnalyzeUnsolvableClause(cls, why, start, clause_id, acc) ==
    IF cls[clause_id + 1].kind.kind = "Learnt"
    THEN IF clause_id \in acc.seen THEN acc
         ELSE AnalyzeUnsolvableCauses(cls, why, start, why[clause_id - start + 1],
                                      [acc EXCEPT !.seen = @ \cup {clause_id}])
    ELSE [acc EXCEPT !.problem = @ \cup {clause_id}]

AnalyzeUnsolvableCauses(cls, why, start, causes, acc) ==
    IF causes = <<>> THEN acc
    ELSE AnalyzeUnsolvableCauses(cls, why, start, Tail(causes),
            AnalyzeUnsolvableClause(cls, why, start, Head(causes), acc))

LiteralSolvables(lits) == {lits[i].solvable_id : i \in DOMAIN lits}

\* the loop over stack[1..] in reverse; i is the 1-based stack position
RECURSIVE AnalyzeUnsolvableStack(_, _, _, _, _, _, _)
AnalyzeUnsolvableStack(cls, why, start, lcs, cands, t, st) ==
    IF st.i < 2 \/ st.panic THEN st
    ELSE LET d == t.stack[st.i]
             lits == Literals(cls[d.derived_from + 1].kind, lcs, cands)
             acc  == AnalyzeUnsolvableClause(cls, why, start, d.derived_from,
                                             [problem |-> st.problem, seen |-> st.seen])
             bad  == \E k \in DOMAIN lits :
                        /\ Eval(lits[k], t.map) = Some(TRUE)
                        /\ lits[k].solvable_id # d.solvable_id
             more == {lits[k].solvable_id : k \in {j \in DOMAIN lits : Eval(lits[j], t.map) # Some(TRUE)}}
         IN  IF d.solvable_id = Root THEN [st EXCEPT !.panic = TRUE]
             ELSE IF d.solvable_id \notin st.involved
             THEN AnalyzeUnsolvableStack(cls, why, start, lcs, cands, t, [st EXCEPT !.i = @ - 1])
             ELSE IF d.derived_from = InstallRootId \/ bad THEN [st EXCEPT !.panic = TRUE]
             ELSE AnalyzeUnsolvableStack(cls, why, start, lcs, cands, t,
                     [i |-> st.i - 1, problem |-> acc.problem, seen |-> acc.seen,
                      involved |-> st.involved \cup more, panic |-> FALSE])

\* the clauses that the decisions after the root's were derived from, all
\* of them, whether the conflict involves their solvable or not
RECURSIVE AnalyzeUnsolvableEveryDecision(_, _, _, _, _, _)
AnalyzeUnsolvableEveryDecision(cls, why, start, t, i, acc) ==
    IF i < 2 THEN acc
    ELSE AnalyzeUnsolvableEveryDecision(cls, why, start, t, i - 1,
            AnalyzeUnsolvableClause(cls, why, start, t.stack[i].derived_from, acc))

\* AnalyzeUnsolvable without the test of involvement
AnalyzeUnsolvableWholeStack(cls, why, start, lcs, cands, t, clause_id) ==
    [problem |-> AnalyzeUnsolvableEveryDecision(cls, why, start, t, Len(t.stack),
                     AnalyzeUnsolvableClause(cls, why, start, clause_id,
                                             [problem |-> {}, seen |-> {}])).problem,
     panic |-> FALSE,
     highest_level |-> Level(t, Last(t.stack).solvable_id)]

\* AnalyzeUnsolvable without the walk over the decision stack
AnalyzeUnsolvableNoStack(cls, why, start, lcs, cands, t, clause_id) ==
    [problem |-> AnalyzeUnsolvableClause(cls, why, start, clause_id,
                                         [problem |-> {}, seen |-> {}]).problem,
     panic |-> FALSE,
     highest_level |-> Level(t, Last(t.stack).solvable_id)]

\* analyze_unsolvable: [problem, panic, highest_level]
AnalyzeUnsolvable(cls, why, start, lcs, cands, t, clause_id) ==
    LET first == AnalyzeUnsolvableClause(cls, why, start, clause_id,
                                         [problem |-> {}, seen |-> {}])
        st == AnalyzeUnsolvableStack(cls, why, start, lcs, cands, t,
                 [i |-> Len(t.stack), problem |-> first.problem, seen |-> first.seen,
                  involved |-> LiteralSolvables(Literals(cls[clause_id + 1].kind, lcs, cands)),
                  panic |-> FALSE])
    IN  [problem |-> st.problem, panic |-> st.panic,
         highest_level |-> Level(t, Last(t.stack).solvable_id)]

(***************************************************************************)
(* Solver::analyze: first-UIP conflict analysis.  The analysis state is    *)
(* [t, seen, causes, learnt, back_track_to, why, first, conflicting,       *)
(*  clause_id, current_level, s_value, panic].                             *)
(***************************************************************************)
\* VisitLiteral leaving the literals of lower levels out of the learnt clause
VisitLiteralDroppingLower(a, lit) ==
    IF a.panic THEN a
    ELSE IF ~a.first /\ lit.solvable_id = a.conflicting THEN a
    ELSE IF lit.solvable_id \in a.seen THEN a
    ELSE LET a1 == [a EXCEPT !.seen = @ \cup {lit.solvable_id}]
             decision_level == Level(a.t, lit.solvable_id)
         IN  IF decision_level = a.current_level
             THEN [a1 EXCEPT !.causes = @ + 1]
             ELSE IF a.current_level > 1 /\ AssignedValue(a.t, lit.solvable_id) # None
             THEN [a1 EXCEPT !.back_track_to = Max(@, decision_level)]
             ELSE [a1 EXCEPT !.panic = TRUE]

\* VisitLiteral pushing the lower-level literals as they are assigned
VisitLiteralAsAssigned(a, lit) ==
    IF a.panic THEN a
    ELSE IF ~a.first /\ lit.solvable_id = a.conflicting THEN a
    ELSE IF lit.solvable_id \in a.seen THEN a
    ELSE LET a1 == [a EXCEPT !.seen = @ \cup {lit.solvable_id}]
             decision_level == Level(a.t, lit.solvable_id)
         IN  IF decision_level = a.current_level
             THEN [a1 EXCEPT !.causes = @ + 1]
             ELSE IF a.current_level > 1 /\ AssignedValue(a.t, lit.solvable_id) # None
             THEN [a1 EXCEPT
                     !.learnt = Append(@, Literal(lit.solvable_id,
                                                  ~AssignedValue(a.t, lit.solvable_id)[1])),
                     !.back_track_to = Max(@, decision_level)]
             ELSE [a1 EXCEPT !.panic = TRUE]

\* the closure passed to visit_literals
VisitLiteral(a, lit) ==
    IF a.panic THEN a
    ELSE IF ~a.first /\ lit.solvable_id = a.conflicting THEN a
    ELSE IF lit.solvable_id \in a.seen THEN a
    ELSE LET a1 == [a EXCEPT !.seen = @ \cup {lit.solvable_id}]
             decision_level == Level(a.t, lit.solvable_id)
         IN  IF decision_level = a.current_level
             THEN [a1 EXCEPT !.causes = @ + 1]
             ELSE IF a.current_level > 1 /\ AssignedValue(a.t, lit.solvable_id) # None
             THEN [a1 EXCEPT
                     !.learnt = Append(@, Literal(lit.solvable_id,
                                                  AssignedValue(a.t, lit.solvable_id)[1])),
                     !.back_track_to = Max(@, decision_level)]
             ELSE [a1 EXCEPT !.panic = TRUE]

RECURSIVE VisitLiterals(_, _)
VisitLiterals(a, lits) ==
    IF lits = <<>> THEN a ELSE VisitLiterals(VisitLiteral(a, Head(lits)), Tail(lits))

\* "Select next literal to look at": undo decisions up to the first seen one
RECURSIVE SelectNext(_)
SelectNext(a) ==
    IF a.panic THEN a
    ELSE IF a.t.stack = <<>> THEN [a EXCEPT !.panic = TRUE]
    ELSE LET u  == UndoLast(a.t)
             a1 == [a EXCEPT !.t = u.t,
                             !.conflicting = u.decision.solvable_id,
                             !.s_value = u.decision.value,
                             !.clause_id = u.decision.derived_from,
                             !.current_level = u.level]
         IN  IF u.decision.solvable_id \in a.seen THEN a1 ELSE SelectNext(a1)

RECURSIVE AnalyzeLoop(_, _, _, _)
AnalyzeLoop(cls, lcs, cands, a) ==
    IF a.panic THEN a
    ELSE IF a.clause_id < 0 \/ a.clause_id >= Len(cls) THEN [a EXCEPT !.panic = TRUE]
    ELSE LET a1 == VisitLiterals([a EXCEPT !.why = Append(@, a.clause_id)],
                                 Literals(cls[a.clause_id + 1].kind, lcs, cands))
             a2 == SelectNext([a1 EXCEPT !.first = FALSE])
             a3 == [a2 EXCEPT !.causes = IF @ > 0 THEN @ - 1 ELSE 0]
         IN  IF a2.panic \/ a3.causes = 0 THEN a3
             ELSE AnalyzeLoop(cls, lcs, cands, a3)

\* StoreLearnt without the call of start_watching
StoreLearntUnwatched(cls, watches, clause) ==
    [clauses |-> Append(cls, clause), watches |-> watches]

\* "Store it": the learnt clause is linked into its watch chains, when it
\* has watches, and appended to the clause list
StoreLearnt(cls, watches, clause) ==
    IF HasWatches(clause)
    THEN LET w == StartWatching(watches, clause, Len(cls))
         IN  [clauses |-> Append(cls, w.clause), watches |-> w.watches]
    ELSE [clauses |-> Append(cls, clause), watches |-> watches]

\* AddLearnt creating every clause as Learnt(0)
AddLearntAsFirst(cls, watches, lcs, cands, learnt) ==
    StoreLearnt(cls, watches, ClauseStateNew(ClauseLearnt(0), Append(lcs, learnt), cands))

\* "Add the clause": allocates the literals in the learnt-clause store and
\* creates the clause
AddLearnt(cls, watches, lcs, cands, learnt) ==
    StoreLearnt(cls, watches, ClauseStateNew(ClauseLearnt(Len(lcs)), Append(lcs, learnt), cands))

\* AnalyzeEnd going back one level only, whatever the learnt clause
AnalyzeEndOneLevelBack(cls, watches, lcs, why, cands, a) ==
    LET last_literal == Literal(a.conflicting, a.s_value)
        added == AddLearnt(cls, watches, lcs, cands, Append(a.learnt, last_literal))
    IN  [panic |-> a.panic,
         clauses |-> added.clauses,
         watches |-> added.watches,
         learnt_clauses |-> Append(lcs, Append(a.learnt, last_literal)),
         learnt_why |-> Append(why, a.why),
         t |-> UndoUntil(a.t, Max(a.current_level - 1, 1)),
         level |-> Max(a.current_level - 1, 1),
         clause_id |-> Len(cls),
         literal |-> last_literal]

\* AnalyzeEnd without the call of undo_until
AnalyzeEndWithoutUndo(cls, watches, lcs, why, cands, a) ==
    LET last_literal == Literal(a.conflicting, a.s_value)
        added == AddLearnt(cls, watches, lcs, cands, Append(a.learnt, last_literal))
    IN  [panic |-> a.panic,
         clauses |-> added.clauses,
         watches |-> added.watches,
         learnt_clauses |-> Append(lcs, Append(a.learnt, last_literal)),
         learnt_why |-> Append(why, a.why),
         t |-> a.t,
         level |-> Max(a.back_track_to, 1),
         clause_id |-> Len(cls),
         literal |-> last_literal]

\* AnalyzeEnd with the target back_track_to instead of max(back_track_to, 1)
AnalyzeEndWithoutFloor(cls, watches, lcs, why, cands, a) ==
    LET last_literal == Literal(a.conflicting, a.s_value)
        added == AddLearnt(cls, watches, lcs, cands, Append(a.learnt, last_literal))
    IN  [panic |-> a.panic,
         clauses |-> added.clauses,
         watches |-> added.watches,
         learnt_clauses |-> Append(lcs, Append(a.learnt, last_literal)),
         learnt_why |-> Append(why, a.why),
         t |-> UndoUntil(a.t, a.back_track_to),
         level |-> a.back_track_to,
         clause_id |-> Len(cls),
         literal |-> last_literal]

\* the end of analyze, after the loop: a is the analysis state
AnalyzeEnd(cls, watches, lcs, why, cands, a) ==
    LET last_literal == Literal(a.conflicting, a.s_value)
        added == AddLearnt(cls, watches, lcs, cands, Append(a.learnt, last_literal))
    IN  [panic |-> a.panic,
         clauses |-> added.clauses,
         watches |-> added.watches,
         learnt_clauses |-> Append(lcs, Append(a.learnt, last_literal)),
         learnt_why |-> Append(why, a.why),
         t |-> UndoUntil(a.t, Max(a.back_track_to, 1)),
         level |-> Max(a.back_track_to, 1),
         clause_id |-> Len(cls),
         literal |-> last_literal]

\* analyze: the state of the solver after learning and backtracking, with
\* the returned (level, clause_id, literal)
Analyze(cls, watches, lcs, why, cands, t, current_level, conflicting_solvable, clause_id) ==
    AnalyzeEnd(cls, watches, lcs, why, cands,
        AnalyzeLoop(cls, lcs, cands,
            [t |-> t, seen |-> {}, causes |-> 0, learnt |-> <<>>, back_track_to |-> 0,
             why |-> <<>>, first |-> TRUE, conflicting |-> conflicting_solvable,
             clause_id |-> clause_id, current_level |-> current_level,
             s_value |-> FALSE, panic |-> FALSE]))

(***************************************************************************)
(* Pools and jobs the solver is run on: the pools of the test suite.       *)
(***************************************************************************)
Jobs(install, lock, favor) == [install |-> install, lock |-> lock, favor |-> favor]

Scenario(pkgs, install, lock, favors) ==
    [pool |-> MkPool(pkgs), install |-> install, lock |-> lock, favors |-> favors]

\* test_unit_propagation_nested: asdf = 1, efgh = 2, dummy = 3
TestNested ==
    Scenario(<<Pkg(1, 1, <<SpecAny(2)>>, <<>>), Pkg(2, 4, <<>>, <<>>), Pkg(3, 6, <<>>, <<>>)>>,
             <<SpecAny(1)>>, <<>>, {})

\* test_resolve_with_conflict: asdf = 1, efgh = 2, conflicting = 3
TestConflict ==
    Scenario(<<Pkg(1, 4, <<SpecOne(3, 1)>>, <<>>), Pkg(1, 3, <<SpecOne(3, 0)>>, <<>>),
               Pkg(2, 7, <<SpecOne(3, 0)>>, <<>>), Pkg(2, 6, <<SpecOne(3, 0)>>, <<>>),
               Pkg(3, 1, <<>>, <<>>), Pkg(3, 0, <<>>, <<>>)>>,
             <<SpecAny(1), SpecAny(2)>>, <<>>, {})

\* test_resolve_with_nonexisting: asdf = 1, b = 2, idontexist = 3
TestNonexisting ==
    Scenario(<<Pkg(1, 4, <<SpecAny(2)>>, <<>>), Pkg(1, 3, <<>>, <<>>),
               Pkg(2, 1, <<SpecAny(3)>>, <<>>)>>,
             <<SpecAny(1)>>, <<>>, {})

\* test_resolve_locked_top_level: asdf = 1, asdf 3 locked
TestLockedTopLevel ==
    Scenario(<<Pkg(1, 4, <<>>, <<>>), Pkg(1, 3, <<>>, <<>>)>>, <<SpecAny(1)>>, <<2>>, {})

\* test_resolve_ignored_locked_top_level: asdf = 1, fgh = 2, fgh 1 locked
TestIgnoredLocked ==
    Scenario(<<Pkg(1, 4, <<>>, <<>>), Pkg(1, 3, <<SpecAny(2)>>, <<>>), Pkg(2, 1, <<>>, <<>>)>>,
             <<SpecAny(1)>>, <<3>>, {})

\* test_resolve_favor_without_conflict: a = 1, b = 2, favor a 1 and b 1
TestFavorWithoutConflict ==
    Scenario(<<Pkg(1, 1, <<>>, <<>>), Pkg(1, 2, <<>>, <<>>),
               Pkg(2, 1, <<>>, <<>>), Pkg(2, 2, <<>>, <<>>)>>,
             <<SpecAny(1), SpecOne(2, 2)>>, <<>>, {<<1, 3>>})

\* test_resolve_favor_with_conflict: a = 1, b = 2, c = 3, favor a 1, b 1, c 1
TestFavorWithConflict ==
    Scenario(<<Pkg(1, 1, <<SpecOne(3, 1)>>, <<>>), Pkg(1, 2, <<>>, <<>>),
               Pkg(2, 1, <<SpecOne(3, 1)>>, <<>>), Pkg(2, 2, <<SpecOne(3, 2)>>, <<>>),
               Pkg(3, 1, <<>>, <<>>), Pkg(3, 2, <<>>, <<>>)>>,
             <<SpecAny(1), SpecOne(2, 2)>>, <<>>, {<<1, 3, 5>>})

\* test_resolve_cyclic: a = 1, b = 2
TestCyclic ==
    Scenario(<<Pkg(1, 2, <<SpecRange(2, 0, 10)>>, <<>>), Pkg(2, 5, <<SpecRange(1, 2, 4)>>, <<>>)>>,
             <<SpecRange(1, 0, 100)>>, <<>>, {})

\* test_unsat_locked_and_excluded: asdf = 1, c = 2, c 1 (solvable 3) locked
TestLockedAndExcluded ==
    Scenario(<<Pkg(1, 1, <<SpecOne(2, 2)>>, <<>>), Pkg(2, 2, <<>>, <<>>), Pkg(2, 1, <<>>, <<>>)>>,
             <<SpecAny(1)>>, <<3>>, {})

\* test_unsat_missing_top_level_dep_1: asdf = 1, fghj = 2
TestMissingTopLevel ==
    Scenario(<<Pkg(1, 1, <<>>, <<>>)>>, <<SpecAny(2)>>, <<>>, {})

\* test_unsat_after_backtracking: b = 1, c = 2, d = 3, e = 4
TestUnsatAfterBacktracking ==
    Scenario(<<Pkg(1, 7, <<SpecOne(3, 1)>>, <<>>), Pkg(1, 6, <<SpecOne(3, 1)>>, <<>>),
               Pkg(2, 1, <<SpecOne(3, 2)>>, <<>>), Pkg(2, 2, <<SpecOne(3, 2)>>, <<>>),
               Pkg(3, 2, <<>>, <<>>), Pkg(3, 1, <<>>, <<>>),
               Pkg(4, 1, <<>>, <<>>), Pkg(4, 2, <<>>, <<>>)>>,
             <<SpecAny(1), SpecAny(2), SpecAny(4)>>, <<>>, {})

\* test_unsat_incompatible_root_requirements: a = 1
TestIncompatibleRoot ==
    Scenario(<<Pkg(1, 2, <<>>, <<>>), Pkg(1, 5, <<>>, <<>>)>>,
             <<SpecRange(1, 0, 4), SpecRange(1, 5, 10)>>, <<>>, {})

\* test_unsat_pubgrub_article: menu = 1, dropdown = 2, icons = 3, intl = 4
TestPubgrub ==
    Scenario(<<Pkg(1, 15, <<SpecRange(2, 2, 3)>>, <<>>), Pkg(1, 10, <<SpecRange(2, 1, 2)>>, <<>>),
               Pkg(2, 2, <<SpecOne(3, 2)>>, <<>>), Pkg(2, 1, <<SpecOne(4, 3)>>, <<>>),
               Pkg(3, 2, <<>>, <<>>), Pkg(3, 1, <<>>, <<>>),
               Pkg(4, 5, <<>>, <<>>), Pkg(4, 3, <<>>, <<>>)>>,
             <<SpecAny(1), SpecOne(3, 1), SpecOne(4, 5)>>, <<>>, {})

\* test_unsat_constrains: a = 1, b = 2, c = 3
TestConstrains ==
    Scenario(<<Pkg(1, 10, <<SpecRange(2, 50, 100)>>, <<>>), Pkg(1, 9, <<SpecRange(2, 50, 100)>>, <<>>),
               Pkg(2, 50, <<>>, <<>>), Pkg(2, 42, <<>>, <<>>),
               Pkg(3, 10, <<>>, <<SpecRange(2, 0, 50)>>), Pkg(3, 8, <<>>, <<SpecRange(2, 0, 50)>>)>>,
             <<SpecAny(1), SpecAny(3)>>, <<>>, {})

\* test_resolve_multiple: asdf = 1, efgh = 2
TestMultiple ==
    Scenario(<<Pkg(1, 1, <<>>, <<>>), Pkg(1, 2, <<>>, <<>>),
               Pkg(2, 4, <<>>, <<>>), Pkg(2, 5, <<>>, <<>>)>>,
             <<SpecAny(1), SpecAny(2)>>, <<>>, {})

TestScenarios ==
    {TestNested, TestConflict, TestNonexisting, TestLockedTopLevel, TestIgnoredLocked,
     TestFavorWithoutConflict, TestFavorWithConflict, TestCyclic, TestLockedAndExcluded,
     TestMissingTopLevel, TestUnsatAfterBacktracking, TestIncompatibleRoot, TestPubgrub,
     TestConstrains, TestMultiple}

(***************************************************************************)
(* A family of pools over three names a = 1, b = 2, c = 3 with versions 2  *)
(* and 1 each: the solvables are a 2, a 1, b 2, b 1, c 2, c 1 (ids 1..6).  *)
(* Every a and b has at most one dependency, c 2 may constrain b.          *)
(***************************************************************************)
GenDepsA2 == {<<>>, <<SpecOne(2, 2)>>, <<SpecOne(3, 2)>>, <<SpecOne(3, 1)>>, <<SpecOne(3, 3)>>}

GenDepsA1 == {<<>>, <<SpecAny(2)>>, <<SpecOne(2, 1)>>, <<SpecOne(3, 1)>>}

GenDepsB2 == {<<>>, <<SpecOne(3, 1)>>, <<SpecOne(3, 2)>>}

GenDepsB1 == {<<>>, <<SpecOne(3, 1)>>, <<SpecAny(1)>>}

GenConstrainsC2 == {<<>>, <<SpecOne(2, 1)>>}

GenInstalls == {<<SpecAny(1)>>, <<SpecAny(1), SpecAny(2)>>, <<SpecOne(2, 1), SpecAny(1)>>}

GenLocks == {<<>>, <<4>>, <<6>>}

GenFavors == {<<2>>, <<2, 4, 6>>}

GenPackages(da2, da1, db2, db1, cc2) ==
    <<Pkg(1, 2, da2, <<>>), Pkg(1, 1, da1, <<>>), Pkg(2, 2, db2, <<>>), Pkg(2, 1, db1, <<>>),
      Pkg(3, 2, <<>>, cc2), Pkg(3, 1, <<>>, <<>>)>>

GeneratedScenarios ==
    {Scenario(GenPackages(da2, da1, db2, db1, cc2), install, lock, GenFavors) :
        da2 \in GenDepsA2, da1 \in GenDepsA1, db2 \in GenDepsB2, db1 \in GenDepsB1,
        cc2 \in GenConstrainsC2, install \in GenInstalls, lock \in GenLocks}

\* a = 1 with a 1 requiring the missing package 3, and requests that name
\* packages without candidates (names 2 and 3)
MissingTopLevelAndNested ==
    Scenario(<<Pkg(1, 1, <<SpecAny(3)>>, <<>>)>>, <<SpecAny(1), SpecAny(2)>>, <<>>, {})

MissingTopLevelTwice ==
    Scenario(<<Pkg(1, 1, <<>>, <<>>)>>, <<SpecAny(1), SpecAny(2), SpecAny(3)>>, <<>>, {})

MissingScenarios == {MissingTopLevelAndNested, MissingTopLevelTwice}

\* the pool of test_resolve_with_conflict with the dependencies of asdf 4 and
\* asdf 3 exchanged, and asdf 3 (solvable 2) favored: installing the favored
\* asdf 3 leaves no candidate for efgh
FavorLeadsToConflict ==
    Scenario(<<Pkg(1, 4, <<SpecOne(3, 0)>>, <<>>), Pkg(1, 3, <<SpecOne(3, 1)>>, <<>>),
               Pkg(2, 7, <<SpecOne(3, 0)>>, <<>>), Pkg(2, 6, <<SpecOne(3, 0)>>, <<>>),
               Pkg(3, 1, <<>>, <<>>), Pkg(3, 0, <<>>, <<>>)>>,
             <<SpecAny(1), SpecAny(2)>>, <<>>, {<<2>>})

\* a = 1, b = 2, c = 3, d = 4 with versions 2 and 1: every a needs d 1 (a 2
\* through c 2) and every b needs d 2 (b 1 through c 1), so the requests a
\* and b cannot both be met; c is requested as well
RedundantRequest ==
    Scenario(<<Pkg(1, 2, <<SpecOne(3, 2)>>, <<>>), Pkg(1, 1, <<SpecOne(4, 1)>>, <<>>),
               Pkg(2, 2, <<SpecOne(4, 2)>>, <<>>), Pkg(2, 1, <<SpecOne(3, 1)>>, <<>>),
               Pkg(3, 2, <<SpecOne(4, 1)>>, <<>>), Pkg(3, 1, <<SpecOne(4, 2)>>, <<>>),
               Pkg(4, 2, <<>>, <<>>), Pkg(4, 1, <<>>, <<>>)>>,
             <<SpecAny(1), SpecAny(2), SpecAny(3)>>, <<>>, {})

\* the pool of test_unsat_incompatible_root_requirements with a package b
\* (name 2) that is requested too and takes no part in the conflict
IncompatibleWithBystander ==
    Scenario(<<Pkg(1, 2, <<>>, <<>>), Pkg(1, 5, <<>>, <<>>), Pkg(2, 1, <<>>, <<>>)>>,
             <<SpecAny(2), SpecRange(1, 0, 4), SpecRange(1, 5, 10)>>, <<>>, {})

\* a 1 constrains its own name to version 2, which no solvable has: the
\* builder emits Constrains(a 1, a 1); b 1 requires a, b 2 nothing; install b
ConstrainsItself ==
    Scenario(<<Pkg(1, 1, <<>>, <<SpecOne(1, 2)>>), Pkg(2, 1, <<SpecAny(1)>>, <<>>),
               Pkg(2, 2, <<>>, <<>>)>>,
             <<SpecAny(2)>>, <<>>, {})

\* the same a 1 alone, and requested
ConstrainsItselfRequested ==
    Scenario(<<Pkg(1, 1, <<>>, <<SpecOne(1, 2)>>)>>, <<SpecAny(1)>>, <<>>, {})

\* a, b and c requested.  a 2 excludes d 2, b 2 excludes h 2, h 1 excludes
\* d 1.  c 3 needs d and h, so it fails because of a 2 and b 2 and a clause
\* of three literals is learnt.  c 2 needs d and excludes d 1, so it fails
\* because of a 2 alone and the solver goes back below the decision for
\* b 2, which it then makes again.
StaleLearntWatch ==
    Scenario(<<Pkg(1, 2, <<>>, <<SpecOne(4, 1)>>), Pkg(1, 1, <<>>, <<>>),
               Pkg(2, 2, <<>>, <<SpecOne(5, 1)>>), Pkg(2, 1, <<>>, <<>>),
               Pkg(3, 3, <<SpecAny(4), SpecAny(5)>>, <<>>),
               Pkg(3, 2, <<SpecAny(4)>>, <<SpecOne(4, 2)>>),
               Pkg(3, 1, <<>>, <<>>),
               Pkg(4, 2, <<>>, <<>>), Pkg(4, 1, <<>>, <<>>),
               Pkg(5, 2, <<>>, <<>>), Pkg(5, 1, <<>>, <<SpecOne(4, 2)>>)>>,
             <<SpecAny(1), SpecAny(2), SpecAny(3)>>, <<>>, {})

Scenarios ==
    TestScenarios \cup GeneratedScenarios \cup MissingScenarios
        \cup {FavorLeadsToConflict, RedundantRequest, IncompatibleWithBystander,
              ConstrainsItself, ConstrainsItselfRequested, StaleLearntWatch}

(***************************************************************************)
(* The solver as a state machine.                                          *)
(***************************************************************************)
VARIABLES
    scenario,             \* the pool, the install and lock jobs, the favor lists to try
    jobs,                 \* the jobs of the current solve
    clauses,              \* Solver::clauses
    watches,              \* Solver::watches
    learnt_clauses_start, \* Solver::learnt_clauses_start
    learnt_clauses,       \* Solver::learnt_clauses
    learnt_why,           \* Solver::learnt_why
    decision_tracker,     \* Solver::decision_tracker
    candidates,           \* pool.match_spec_to_sorted_candidates
    pc,                   \* the position in solve
    level,                \* the level of run_sat / set_propagate_learn
    caller,               \* who called propagate: "run_sat" or "set_propagate_learn"
    chain,                \* propagate's position in a watch chain: [pkg, pred, clause_id]
    conflict,             \* the conflict propagate returned
    result,               \* what solve returned
    baseline,             \* what the first solve of the scenario returned
    calls                 \* the calls of solve made on the current Solver

vars == <<scenario, jobs, clauses, watches, learnt_clauses_start, learnt_clauses, learnt_why,
          decision_tracker, candidates, pc, level, caller, chain, conflict, result, baseline, calls>>

pool == scenario.pool

NoChain == [pkg |-> Null, pred |-> Null, clause_id |-> Null]

NoConflict == [solvable_id |-> Null, value |-> FALSE, clause_id |-> Null]

NoResult == [kind |-> "none", steps |-> <<>>, problem |-> {}, debug_assert_failed |-> FALSE]

Transaction(steps) ==
    [kind |-> "transaction", steps |-> steps, problem |-> {}, debug_assert_failed |-> FALSE]

Problem(u) ==
    [kind |-> IF u.panic THEN "panic" ELSE "problem", steps |-> <<>>,
     problem |-> u.problem, debug_assert_failed |-> u.highest_level # 1]

Panic == [kind |-> "panic", steps |-> <<>>, problem |-> {}, debug_assert_failed |-> FALSE]

\* Solver::new
NewSolver(sc, favor) ==
    /\ scenario = sc
    /\ jobs = Jobs(sc.install, sc.lock, favor)
    /\ clauses = <<>>
    /\ watches = WatchMapNew(NumSolvables(sc.pool))
    /\ learnt_clauses_start = Null
    /\ learnt_clauses = <<>>
    /\ learnt_why = <<>>
    /\ decision_tracker = TrackerNew(NumSolvables(sc.pool))
    /\ candidates = <<>>
    /\ pc = "new"
    /\ level = 0
    /\ caller = "none"
    /\ chain = NoChain
    /\ conflict = NoConflict
    /\ result = NoResult

Init ==
    /\ \E sc \in Scenarios : NewSolver(sc, <<>>)
    /\ baseline = NoResult
    /\ calls = 0

\* Solver::solve up to run_sat: clears the state, builds the clauses and
\* the watch chains
Solve ==
    /\ pc = "new"
    /\ LET b == BuildClauses(pool, jobs)
           w == MakeWatches(watches, b.clauses, 1)
       IN  /\ clauses' = w.clauses
           /\ watches' = w.watches
           /\ candidates' = b.cands
           /\ learnt_clauses_start' = Len(b.clauses)
    /\ decision_tracker' = TrackerNew(NumSolvables(pool))
    /\ learnt_clauses' = <<>>
    /\ learnt_why' = <<>>
    /\ pc' = "run_sat"
    /\ calls' = calls + 1
    /\ UNCHANGED <<scenario, jobs, level, caller, chain, conflict, result, baseline>>

\* DecideRequiresWithoutCandidates with the loop over the clauses left out
DecideRequiresSkipped(cls, t, lvl, i) == [ok |-> TRUE, t |-> t, cause |-> Null]

\* DecideRequiresWithoutCandidates going on after a failed try_add_decision
RECURSIVE DecideRequiresIgnoringFailure(_, _, _, _)
DecideRequiresIgnoringFailure(cls, t, lvl, i) ==
    IF i > Len(cls) THEN [ok |-> TRUE, t |-> t, cause |-> Null]
    ELSE IF cls[i].kind.kind = "Requires" /\ ~HasWatches(cls[i])
    THEN DecideRequiresIgnoringFailure(cls,
            TryAddDecision(t, Decision(cls[i].kind.a, FALSE, i - 1), lvl).t, lvl, i + 1)
    ELSE DecideRequiresIgnoringFailure(cls, t, lvl, i + 1)

\* decide_requires_without_candidates: [ok, t, cause]
RECURSIVE DecideRequiresWithoutCandidates(_, _, _, _)
DecideRequiresWithoutCandidates(cls, t, lvl, i) ==
    IF i > Len(cls) THEN [ok |-> TRUE, t |-> t, cause |-> Null]
    ELSE IF cls[i].kind.kind = "Requires" /\ ~HasWatches(cls[i])
    THEN LET r == TryAddDecision(t, Decision(cls[i].kind.a, FALSE, i - 1), lvl)
         IN  IF r.ok THEN DecideRequiresWithoutCandidates(cls, r.t, lvl, i + 1)
             ELSE [ok |-> FALSE, t |-> t, cause |-> i - 1]
    ELSE DecideRequiresWithoutCandidates(cls, t, lvl, i + 1)

\* run_sat up to its call of propagate: installs the root and forbids the
\* packages that require something without candidates
RunSat ==
    /\ pc = "run_sat"
    /\ LET root == TryAddDecision(decision_tracker, Decision(Root, TRUE, InstallRootId), 1)
           r    == DecideRequiresWithoutCandidates(clauses, root.t, 1, 1)
       IN  IF decision_tracker.stack # <<>> \/ ~root.ok
           THEN /\ result' = Panic
                /\ pc' = "done"
                /\ UNCHANGED <<decision_tracker, caller>>
           ELSE IF ~r.ok
           THEN /\ result' = Problem(AnalyzeUnsolvable(clauses, learnt_why, learnt_clauses_start,
                                         learnt_clauses, candidates, r.t, r.cause))
                /\ decision_tracker' = r.t
                /\ pc' = "done"
                /\ UNCHANGED caller
           ELSE /\ decision_tracker' = r.t
                /\ pc' = "propagate"
                /\ caller' = "run_sat"
                /\ UNCHANGED result
    /\ level' = 1
    /\ UNCHANGED <<scenario, jobs, clauses, watches, learnt_clauses_start, learnt_clauses,
                   learnt_why, candidates, chain, conflict, baseline, calls>>

\* propagate, first phase: the learnt clauses with a single literal
RECURSIVE LearntAssertions(_, _, _, _, _)
LearntAssertions(lcs, start, t, lvl, i) ==
    IF i > Len(lcs) THEN [ok |-> TRUE, t |-> t, conflict |-> NoConflict]
    ELSE IF Len(lcs[i]) > 1 THEN LearntAssertions(lcs, start, t, lvl, i + 1)
    ELSE LET literal == lcs[i][1]
             decision == SatisfyingValue(literal)
             clause_id == start + i - 1
             r == TryAddDecision(t, Decision(literal.solvable_id, decision, clause_id), lvl)
         IN  IF r.ok THEN LearntAssertions(lcs, start, r.t, lvl, i + 1)
             ELSE [ok |-> FALSE, t |-> t,
                   conflict |-> [solvable_id |-> literal.solvable_id, value |-> decision,
                                 clause_id |-> clause_id]]

PropagateAssertions ==
    /\ pc = "propagate"
    /\ LET r == LearntAssertions(learnt_clauses, learnt_clauses_start, decision_tracker, level, 1)
       IN  /\ decision_tracker' = r.t
           /\ conflict' = r.conflict
           /\ pc' = IF r.ok THEN "watched" ELSE "conflict"
    /\ UNCHANGED <<scenario, jobs, clauses, watches, learnt_clauses_start, learnt_clauses,
                   learnt_why, candidates, level, caller, chain, result, baseline, calls>>

\* propagate, "while let Some(decision) = next_unpropagated()": takes the next
\* decision and starts on its watch chain
NextUnpropagated ==
    /\ pc = "watched"
    /\ decision_tracker.propagate_index < Len(decision_tracker.stack)
    /\ LET d == decision_tracker.stack[decision_tracker.propagate_index + 1]
       IN  chain' = [pkg |-> d.solvable_id, pred |-> Null,
                     clause_id |-> FirstClauseWatchingSolvable(watches, d.solvable_id)]
    /\ decision_tracker' = [decision_tracker EXCEPT !.propagate_index = @ + 1]
    /\ pc' = "chain"
    /\ UNCHANGED <<scenario, jobs, clauses, watches, learnt_clauses_start, learnt_clauses,
                   learnt_why, candidates, level, caller, conflict, result, baseline, calls>>

\* propagate returns Ok: every decision has been propagated
PropagateOk ==
    /\ pc = "watched"
    /\ decision_tracker.propagate_index >= Len(decision_tracker.stack)
    /\ pc' = "resolve"
    /\ UNCHANGED <<scenario, jobs, clauses, watches, learnt_clauses_start, learnt_clauses,
                   learnt_why, decision_tracker, candidates, level, caller, chain, conflict,
                   result, baseline, calls>>

\* the end of the watch chain of the decision being propagated
ChainEnd ==
    /\ pc = "chain"
    /\ chain.clause_id = Null
    /\ chain' = NoChain
    /\ pc' = "watched"
    /\ UNCHANGED <<scenario, jobs, clauses, watches, learnt_clauses_start, learnt_clauses,
                   learnt_why, decision_tracker, candidates, level, caller, conflict, result,
                   baseline, calls>>

\* "Linked list is circular!", or the chain leads to a clause id that
\* self.clauses does not hold, where the index into it panics
ChainPanic ==
    /\ pc = "chain"
    /\ chain.clause_id # Null
    /\ chain.pred = chain.clause_id \/ chain.clause_id >= Len(clauses)
    /\ result' = Panic
    /\ pc' = "done"
    /\ UNCHANGED <<scenario, jobs, clauses, watches, learnt_clauses_start, learnt_clauses,
                   learnt_why, decision_tracker, candidates, level, caller, chain, conflict,
                   baseline, calls>>

\* one clause of the watch chain, whose watched literal did not turn false
ChainSkip ==
    /\ pc = "chain"
    /\ chain.clause_id # Null
    /\ chain.pred # chain.clause_id
    /\ chain.clause_id < Len(clauses)
    /\ LET clause == clauses[chain.clause_id + 1]
       IN  /\ WatchTurnedFalse(clause, chain.pkg, decision_tracker.map, learnt_clauses,
                               candidates) = 0
           /\ chain' = [chain EXCEPT !.pred = chain.clause_id,
                                     !.clause_id = NextWatchedClause(clause, chain.pkg)]
    /\ UNCHANGED <<scenario, jobs, clauses, watches, learnt_clauses_start, learnt_clauses,
                   learnt_why, decision_tracker, candidates, pc, level, caller, conflict,
                   result, baseline, calls>>

\* one clause of the watch chain, whose watched literal turned false and
\* which has another literal to watch
ChainMoveWatch ==
    /\ pc = "chain"
    /\ chain.clause_id # Null
    /\ chain.pred # chain.clause_id
    /\ chain.clause_id < Len(clauses)
    /\ LET clause == clauses[chain.clause_id + 1]
           watch_index == WatchTurnedFalse(clause, chain.pkg, decision_tracker.map,
                                           learnt_clauses, candidates)
           variable == NextUnwatchedVariable(clause, learnt_clauses, candidates,
                                             decision_tracker.map)
           u == UpdateWatched(watches, clauses, chain.pred, chain.clause_id, watch_index,
                              chain.pkg, variable)
       IN  /\ watch_index # 0
           /\ variable # Null
           /\ watches' = u.watches
           /\ clauses' = u.clauses
           /\ chain' = [chain EXCEPT !.clause_id = NextWatchedClause(clause, chain.pkg)]
    /\ UNCHANGED <<scenario, jobs, learnt_clauses_start, learnt_clauses, learnt_why,
                   decision_tracker, candidates, pc, level, caller, conflict, result, baseline, calls>>

\* ChainUnit with the failure of try_add_decision ignored
ChainUnitIgnoringConflict ==
    /\ pc = "chain"
    /\ chain.clause_id # Null
    /\ chain.pred # chain.clause_id
    /\ chain.clause_id < Len(clauses)
    /\ LET clause == clauses[chain.clause_id + 1]
           watch_index == WatchTurnedFalse(clause, chain.pkg, decision_tracker.map,
                                           learnt_clauses, candidates)
           variable == NextUnwatchedVariable(clause, learnt_clauses, candidates,
                                             decision_tracker.map)
           remaining_watch == WatchedLiteral(clause, 3 - watch_index, learnt_clauses, candidates)
           r == TryAddDecision(decision_tracker,
                               Decision(remaining_watch.solvable_id,
                                        SatisfyingValue(remaining_watch), chain.clause_id),
                               level)
       IN  /\ watch_index # 0
           /\ variable = Null
           /\ decision_tracker' = r.t
           /\ chain' = [chain EXCEPT !.pred = chain.clause_id,
                                     !.clause_id = NextWatchedClause(clause, chain.pkg)]
    /\ UNCHANGED <<scenario, jobs, clauses, watches, learnt_clauses_start, learnt_clauses,
                   learnt_why, candidates, pc, level, caller, conflict, result, baseline, calls>>

\* one clause of the watch chain, whose watched literal turned false and
\* which has no other literal to watch: the remaining watched literal is
\* assigned, or the clause is in conflict
ChainUnit ==
    /\ pc = "chain"
    /\ chain.clause_id # Null
    /\ chain.pred # chain.clause_id
    /\ chain.clause_id < Len(clauses)
    /\ LET clause == clauses[chain.clause_id + 1]
           watch_index == WatchTurnedFalse(clause, chain.pkg, decision_tracker.map,
                                           learnt_clauses, candidates)
           variable == NextUnwatchedVariable(clause, learnt_clauses, candidates,
                                             decision_tracker.map)
           remaining_watch == WatchedLiteral(clause, 3 - watch_index, learnt_clauses, candidates)
           r == TryAddDecision(decision_tracker,
                               Decision(remaining_watch.solvable_id,
                                        SatisfyingValue(remaining_watch), chain.clause_id),
                               level)
       IN  /\ watch_index # 0
           /\ variable = Null
           /\ decision_tracker' = r.t
           /\ IF r.ok
              THEN /\ chain' = [chain EXCEPT !.pred = chain.clause_id,
                                             !.clause_id = NextWatchedClause(clause, chain.pkg)]
                   /\ UNCHANGED <<pc, conflict>>
              ELSE /\ conflict' = [solvable_id |-> remaining_watch.solvable_id, value |-> TRUE,
                                   clause_id |-> chain.clause_id]
                   /\ chain' = NoChain
                   /\ pc' = "conflict"
    /\ UNCHANGED <<scenario, jobs, clauses, watches, learnt_clauses_start, learnt_clauses,
                   learnt_why, candidates, level, caller, result, baseline, calls>>

\* Unsolvable without the test of the level
UnsolvableAtAnyLevel ==
    /\ pc = "conflict"
    /\ result' = Problem(AnalyzeUnsolvable(clauses, learnt_why, learnt_clauses_start,
                             learnt_clauses, candidates, decision_tracker, conflict.clause_id))
    /\ pc' = "done"
    /\ UNCHANGED <<scenario, jobs, clauses, watches, learnt_clauses_start, learnt_clauses,
                   learnt_why, decision_tracker, candidates, level, caller, chain, conflict,
                   baseline, calls>>

\* a conflict that cannot be recovered from: the one of run_sat's own
\* propagation, or one at level 1 in set_propagate_learn
Unsolvable ==
    /\ pc = "conflict"
    /\ caller = "run_sat" \/ level = 1
    /\ result' = Problem(AnalyzeUnsolvable(clauses, learnt_why, learnt_clauses_start,
                             learnt_clauses, candidates, decision_tracker, conflict.clause_id))
    /\ pc' = "done"
    /\ UNCHANGED <<scenario, jobs, clauses, watches, learnt_clauses_start, learnt_clauses,
                   learnt_why, decision_tracker, candidates, level, caller, chain, conflict,
                   baseline, calls>>

\* AssignLearnt without the assignment
AssignLearntSkipped(a) == [ok |-> TRUE, changed |-> FALSE, t |-> a.t]

\* AssignLearnt assigning the value that falsifies the literal
AssignLearntNegated(a) ==
    TryAddDecision(a.t, Decision(a.literal.solvable_id, ~SatisfyingValue(a.literal), a.clause_id),
                   a.level)

\* "Optimization: propagate right now": the literal analyze returned is
\* assigned at the level analyze backtracked to; a is the result of analyze
AssignLearnt(a) ==
    TryAddDecision(a.t, Decision(a.literal.solvable_id, SatisfyingValue(a.literal), a.clause_id),
                   a.level)

\* set_propagate_learn on a conflict above level 1: analyze learns a clause
\* and backtracks, then the literal it returned is assigned
LearnFrom(a) ==
    IF a.panic \/ ~AssignLearnt(a).ok
    THEN /\ result' = Panic
         /\ pc' = "done"
         /\ UNCHANGED <<clauses, watches, learnt_clauses, learnt_why, decision_tracker, level>>
    ELSE /\ clauses' = a.clauses
         /\ watches' = a.watches
         /\ learnt_clauses' = a.learnt_clauses
         /\ learnt_why' = a.learnt_why
         /\ decision_tracker' = AssignLearnt(a).t
         /\ level' = a.level
         /\ pc' = "propagate"
         /\ UNCHANGED result

Learn ==
    /\ pc = "conflict"
    /\ caller = "set_propagate_learn"
    /\ level # 1
    /\ Len(learnt_clauses) < MaxLearnt
    /\ LearnFrom(Analyze(clauses, watches, learnt_clauses, learnt_why, candidates,
                         decision_tracker, level, conflict.solvable_id, conflict.clause_id))
    /\ conflict' = NoConflict
    /\ UNCHANGED <<scenario, jobs, learnt_clauses_start, candidates, caller, chain, baseline, calls>>

\* resolve_dependencies: the 1-based index of the first Requires clause whose
\* solvable is installed and none of whose candidates is, 0 when there is none
RECURSIVE NextRequires(_, _, _, _)
NextRequires(cls, cands, t, i) ==
    IF i > Len(cls) THEN 0
    ELSE IF /\ cls[i].kind.kind = "Requires"
            /\ AssignedValue(t, cls[i].kind.a) = Some(TRUE)
            /\ \A c \in Range(Candidates(cands, cls[i].kind.vs)) : AssignedValue(t, c) # Some(TRUE)
    THEN i
    ELSE NextRequires(cls, cands, t, i + 1)

\* FirstUndecided taking the last undecided candidate instead of the first
RECURSIVE LastUndecided(_, _)
LastUndecided(t, cs) ==
    IF cs = <<>> THEN Null
    ELSE IF AssignedValue(t, Last(cs)) = None THEN Last(cs)
    ELSE LastUndecided(t, Front(cs))

\* "Get the first candidate that is undecided": Null when there is none
RECURSIVE FirstUndecided(_, _)
FirstUndecided(t, cs) ==
    IF cs = <<>> THEN Null
    ELSE IF AssignedValue(t, Head(cs)) = None THEN Head(cs)
    ELSE FirstUndecided(t, Tail(cs))

\* the clause id resolve_dependencies passes to set_propagate_learn for the
\* clause at 1-based index i: ClauseId::new(i) after "i += 1"
BranchClauseId(i) == i

\* resolve_dependencies picks a candidate and set_propagate_learn installs it
\* at the next level
Decide ==
    /\ pc = "resolve"
    /\ LET i == NextRequires(clauses, candidates, decision_tracker, 1)
           candidate == FirstUndecided(decision_tracker,
                                       Candidates(candidates, clauses[i].kind.vs))
           r == TryAddDecision(decision_tracker,
                               Decision(candidate, TRUE, BranchClauseId(i)), level + 1)
       IN  /\ i # 0
           /\ IF candidate = Null
              THEN /\ result' = Panic
                   /\ pc' = "done"
                   /\ UNCHANGED <<decision_tracker, level, caller>>
              ELSE /\ decision_tracker' = r.t
                   /\ level' = level + 1
                   /\ caller' = "set_propagate_learn"
                   /\ pc' = "propagate"
                   /\ UNCHANGED result
    /\ UNCHANGED <<scenario, jobs, clauses, watches, learnt_clauses_start, learnt_clauses,
                   learnt_why, candidates, chain, conflict, baseline, calls>>

\* Steps without the exclusion of the root
RECURSIVE StepsWithRoot(_)
StepsWithRoot(stack) ==
    IF stack = <<>> THEN <<>>
    ELSE StepsWithRoot(Front(stack)) \o
         (IF Last(stack).value THEN <<Last(stack).solvable_id>> ELSE <<>>)

\* the steps of the Transaction: the solvables decided true, without the root
RECURSIVE Steps(_)
Steps(stack) ==
    IF stack = <<>> THEN <<>>
    ELSE Steps(Front(stack)) \o
         (IF Last(stack).value /\ Last(stack).solvable_id # Root
          THEN <<Last(stack).solvable_id>> ELSE <<>>)

\* resolve_dependencies finds nothing left to decide: solve returns the
\* Transaction
Finish ==
    /\ pc = "resolve"
    /\ NextRequires(clauses, candidates, decision_tracker, 1) = 0
    /\ result' = Transaction(Steps(decision_tracker.stack))
    /\ pc' = "done"
    /\ UNCHANGED <<scenario, jobs, clauses, watches, learnt_clauses_start, learnt_clauses,
                   learnt_why, decision_tracker, candidates, level, caller, chain, conflict,
                   baseline, calls>>

\* the same jobs with a favor list, on a new solver; the result of the solve
\* without favor is kept as the baseline
SolveFavored ==
    /\ pc = "done"
    /\ baseline.kind = "none"
    /\ calls = 1
    /\ \E favor \in scenario.favors :
          jobs' = Jobs(scenario.install, scenario.lock, favor)
    /\ baseline' = result
    /\ clauses' = <<>>
    /\ watches' = WatchMapNew(NumSolvables(pool))
    /\ learnt_clauses_start' = Null
    /\ learnt_clauses' = <<>>
    /\ learnt_why' = <<>>
    /\ decision_tracker' = TrackerNew(NumSolvables(pool))
    /\ candidates' = <<>>
    /\ pc' = "new"
    /\ level' = 0
    /\ caller' = "none"
    /\ chain' = NoChain
    /\ conflict' = NoConflict
    /\ result' = NoResult
    /\ calls' = 0
    /\ UNCHANGED scenario

\* solve is called a second time on the same Solver with the same jobs; the
\* locals of the first call are gone, the fields of the Solver are as the
\* first call left them
SolveAgain ==
    /\ pc = "done"
    /\ baseline.kind = "none"
    /\ calls = 1
    /\ baseline' = result
    /\ pc' = "new"
    /\ level' = 0
    /\ caller' = "none"
    /\ chain' = NoChain
    /\ conflict' = NoConflict
    /\ result' = NoResult
    /\ UNCHANGED <<scenario, jobs, clauses, watches, learnt_clauses_start, learnt_clauses,
                   learnt_why, decision_tracker, candidates, calls>>

Next ==
    \/ Solve
    \/ RunSat
    \/ PropagateAssertions
    \/ NextUnpropagated
    \/ PropagateOk
    \/ ChainEnd
    \/ ChainPanic
    \/ ChainSkip
    \/ ChainMoveWatch
    \/ ChainUnit
    \/ Unsolvable
    \/ Learn
    \/ Decide
    \/ Finish
    \/ SolveFavored
    \/ SolveAgain

Spec == Init /\ [][Next]_vars

\* the scenarios of the termination check
LiveScenarios ==
    TestScenarios \cup {sc \in GeneratedScenarios : sc.lock = <<>> /\ Len(sc.install) = 2}

LiveInit ==
    /\ \E sc \in LiveScenarios : NewSolver(sc, <<>>)
    /\ baseline = NoResult
    /\ calls = 0

\* ENABLED <<Next>>_vars, written out from the guards of the actions: solve
\* is running, or it has returned and another call is still to be made; a
\* conflict above level 1 with MaxLearnt clauses learnt is where the model
\* stops
CanStep ==
    \/ pc \notin {"done", "conflict"}
    \/ pc = "conflict" /\ (caller = "run_sat" \/ level = 1 \/ Len(learnt_clauses) < MaxLearnt)
    \/ pc = "done" /\ baseline.kind = "none" /\ calls = 1

\* WF_vars(Next) with its ENABLED written out as CanStep: solve runs on one
\* thread and nothing suspends it, so a step that can be taken is taken
Fairness == []<>(~CanStep) \/ []<><<Next>>_vars

LiveSpec == LiveInit /\ [][Next]_vars /\ Fairness

(***************************************************************************)
(* Properties of solve.                                                    *)
(***************************************************************************)
\* solve, called on a newly constructed Solver, has returned
Returned == pc = "done" /\ calls = 1

\* solve, called on a newly constructed Solver, has returned a Transaction
Solved == Returned /\ result.kind = "transaction"

\* the solvables a Transaction installs, with the root
InstalledBy(steps) == {Root} \cup Range(steps)

\* a literal under the assignment that makes exactly the solvables of T true
LiteralHolds(lit, T) == IF lit.negate THEN lit.solvable_id \notin T ELSE lit.solvable_id \in T

\* the literals of the initial clauses: the clauses below learnt_clauses_start
InitialLiterals ==
    [i \in 1 .. learnt_clauses_start |-> Literals(clauses[i].kind, <<>>, candidates)]

AllSatisfied(lits, T) ==
    \A i \in DOMAIN lits : \E k \in DOMAIN lits[i] : LiteralHolds(lits[i][k], T)

\* some assignment with the root installed satisfies every initial clause
Satisfiable ==
    \E T \in SUBSET Packages(pool) : AllSatisfied(InitialLiterals, {Root} \cup T)

\* C1: every initial clause (InstallRoot, Requires, ForbidMultipleInstances,
\* Lock, Constrains) is satisfied by the assignment that makes the root and
\* the solvables of a returned Transaction true and every other solvable false
C1_AssignmentSoundness ==
    Solved => AllSatisfied(InitialLiterals, InstalledBy(result.steps))

\* a Transaction of two or more solvables found after a conflict
C1_Witness == Solved /\ Len(result.steps) >= 2 /\ Len(learnt_clauses) >= 1

\* C2: solve returns a Transaction when an assignment with the root installed
\* satisfies all initial clauses, and a Problem when none does
C2_ProblemIffUnsatisfiable ==
    Returned => /\ Satisfiable => result.kind = "transaction"
                /\ ~Satisfiable => result.kind = "problem"

\* a Problem returned after a clause was learnt and the solver backtracked
C2_Witness == Returned /\ result.kind = "problem" /\ Len(learnt_clauses) >= 1

\* C3: every solve called on a newly constructed Solver returns, with a
\* Transaction or with a Problem
C3_Terminates ==
    (pc = "new" /\ calls = 0) ~> (Returned /\ result.kind \in {"transaction", "problem"})

\* solve has returned after it learnt from a conflict, backtracked and
\* branched again
C3_Witness == Returned /\ Len(learnt_clauses) >= 1 /\ level >= 2

\* C4: no two solvables of a returned Transaction share a package name
C4_OnePerName ==
    Solved => \A i, j \in DOMAIN result.steps :
                 i # j => pool.name[result.steps[i]] # pool.name[result.steps[j]]

\* a Transaction with a solvable whose name has a second solvable that a
\* dependency of the root or of an installed solvable also accepts
C4_Witness ==
    /\ Solved
    /\ \E i \in 2 .. learnt_clauses_start :
          /\ clauses[i].kind.kind = "Requires"
          /\ clauses[i].kind.a \in InstalledBy(result.steps)
          /\ Len(Candidates(candidates, clauses[i].kind.vs)) >= 2

\* the 1-based position of the decision about s on the stack
StackPosition(s) ==
    CHOOSE k \in DOMAIN decision_tracker.stack : decision_tracker.stack[k].solvable_id = s

\* C5: the steps of a Transaction are the solvables decided true other than
\* the root, each once, in the order of their decisions on the stack
C5_TransactionSteps ==
    Solved =>
        /\ \A i \in DOMAIN result.steps :
              /\ result.steps[i] # Root
              /\ AssignedValue(decision_tracker, result.steps[i]) = Some(TRUE)
        /\ \A i, j \in DOMAIN result.steps :
              i < j => /\ result.steps[i] # result.steps[j]
                       /\ StackPosition(result.steps[i]) < StackPosition(result.steps[j])
        /\ \A s \in Packages(pool) :
              AssignedValue(decision_tracker, s) = Some(TRUE) => s \in Range(result.steps)

\* a Transaction of two or more solvables from a stack that also holds a
\* solvable decided false
C5_Witness ==
    /\ Solved
    /\ Len(result.steps) >= 2
    /\ \E k \in DOMAIN decision_tracker.stack : ~decision_tracker.stack[k].value

\* L is a candidate of a top-level requirement
TopLevelCandidate(L) ==
    \E k \in DOMAIN jobs.install : L \in Range(FindMatchingSolvables(pool, jobs.install[k]))

\* C6: a locked solvable that is a candidate of a top-level requirement is in
\* every returned Transaction
C6_LockedTopLevelInstalled ==
    Solved => \A k \in DOMAIN jobs.lock :
                 TopLevelCandidate(jobs.lock[k]) => jobs.lock[k] \in Range(result.steps)

\* a Transaction for jobs that lock a top-level candidate while a candidate
\* of a higher version matches the same requirement
C6_Witness ==
    /\ Solved
    /\ \E k \in DOMAIN jobs.lock : \E r \in DOMAIN jobs.install :
          \E o \in Range(FindMatchingSolvables(pool, jobs.install[r])) :
             /\ jobs.lock[k] \in Range(FindMatchingSolvables(pool, jobs.install[r]))
             /\ pool.version[o] > pool.version[jobs.lock[k]]

\* C7: a returned Transaction holds no solvable that shares its name with a
\* locked solvable and is not that solvable
C7_NoRivalOfLocked ==
    Solved => \A k \in DOMAIN jobs.lock : \A i \in DOMAIN result.steps :
                 result.steps[i] # jobs.lock[k]
                    => pool.name[result.steps[i]] # pool.name[jobs.lock[k]]

\* a Transaction for jobs with a lock, where a rival of the locked solvable
\* is a candidate of a dependency of an installed solvable
C7_Witness ==
    /\ Solved
    /\ \E k \in DOMAIN jobs.lock : \E i \in 2 .. learnt_clauses_start :
          /\ clauses[i].kind.kind = "Requires"
          /\ clauses[i].kind.a \in InstalledBy(result.steps)
          /\ \E o \in Range(Candidates(candidates, clauses[i].kind.vs)) :
                o # jobs.lock[k] /\ pool.name[o] = pool.name[jobs.lock[k]]

\* C8: for the pool asdf 1 requiring c 2, c 2, c 1, with c 1 locked and asdf
\* requested, solve returns a Problem that holds the clause of asdf 1
\* requiring c 2 and the Lock clause that excludes c 2
C8_LockedAndExcluded ==
    (Returned /\ scenario = TestLockedAndExcluded) =>
        /\ result.kind = "problem"
        /\ \E r \in result.problem : clauses[r + 1].kind = ClauseRequires(1, SpecOne(2, 2))
        /\ \E l \in result.problem : clauses[l + 1].kind = ClauseLock(3, 2)

\* solve has returned for that pool and those jobs
C8_Witness ==
    /\ Returned
    /\ scenario = TestLockedAndExcluded
    /\ result.kind = "problem"
    /\ Cardinality(result.problem) >= 2

\* the initial Requires clauses, by 1-based index, and their candidates
RequiresClauses == {i \in 1 .. learnt_clauses_start : clauses[i].kind.kind = "Requires"}

CandidatesOf(i) == Candidates(candidates, clauses[i].kind.vs)

\* L is a candidate of a dependency of B
DependsOn(B, L) ==
    \E i \in RequiresClauses : clauses[i].kind.a = B /\ L \in Range(CandidatesOf(i))

\* L is a candidate of dependencies of B and of no other solvable reachable
\* from the root
ReachableOnlyVia(L, B) ==
    /\ DependsOn(B, L)
    /\ \A i \in RequiresClauses : L \in Range(CandidatesOf(i)) => clauses[i].kind.a = B

\* A is the first candidate, in sorted order, of a requirement of the root
\* that B is another candidate of
FirstOfRoot(A, B) ==
    \E i \in RequiresClauses :
       /\ clauses[i].kind.a = Root
       /\ CandidatesOf(i)[1] = A
       /\ B \in Range(CandidatesOf(i))
       /\ A # B

\* the locked L is reachable only through B, which has the more preferred
\* alternative A that does not depend on L
IgnoredLock(L, A, B) ==
    /\ L \in Range(jobs.lock)
    /\ ReachableOnlyVia(L, B)
    /\ FirstOfRoot(A, B)
    /\ ~DependsOn(A, L)

\* the same where the jobs install one requirement and lock only L, and A
\* has neither dependencies nor constrains and not the name of L
IgnoredLockPlain(L, A, B) ==
    /\ IgnoredLock(L, A, B)
    /\ Len(jobs.install) = 1
    /\ jobs.lock = <<L>>
    /\ pool.deps[A] = <<>>
    /\ pool.constrains[A] = <<>>
    /\ pool.name[A] # pool.name[L]

FavoredRun == Returned /\ jobs.favor # <<>> /\ baseline.kind # "none"

\* the initial Requires clauses on the package name n
RequiresOfName(n) == {i \in RequiresClauses : clauses[i].kind.vs.name = n}

\* Y is a candidate of every Requires clause on its name, and there is one
MatchesAll(Y) ==
    /\ RequiresOfName(pool.name[Y]) # {}
    /\ \A i \in RequiresOfName(pool.name[Y]) : Y \in Range(CandidatesOf(i))

\* Y is the entry of its name in the favored map
Favored(Y) == Y = FavoredFor(pool, jobs.favor, pool.name[Y])

\* the solve without favor selected X, and the jobs favor another candidate
\* Y of the same name that matches every requirement on that name
FavorCase(X, Y) ==
    /\ baseline.kind = "transaction"
    /\ X \in Range(baseline.steps)
    /\ Favored(Y)
    /\ X # Y
    /\ pool.name[X] = pool.name[Y]
    /\ MatchesAll(Y)

\* Y was assigned false before s was assigned
ExcludedBefore(Y, s) ==
    /\ AssignedValue(decision_tracker, Y) = Some(FALSE)
    /\ StackPosition(Y) < StackPosition(s)

\* a favored solvable that is no candidate of a requirement, on its name, of
\* an installed solvable is not in the Transaction
UnmatchedFavoredLeftOut ==
    \A Y \in Packages(pool) : \A i \in RequiresClauses :
       (/\ Favored(Y)
        /\ clauses[i].kind.a \in InstalledBy(result.steps)
        /\ clauses[i].kind.vs.name = pool.name[Y]
        /\ Y \notin Range(CandidatesOf(i))) => Y \notin Range(result.steps)

C11_FavorKeepsSolvability ==
    FavoredRun =>
        /\ result.kind = "transaction" <=> baseline.kind = "transaction"
        /\ result.kind = "problem" <=> baseline.kind = "problem"
        /\ (baseline.kind = "transaction" /\ Len(learnt_clauses) >= 1)
              => result.kind = "transaction"

\* a favored solve has learnt a clause, backtracked and returned a Transaction
\* without the favored solvable that is the first candidate of a requirement
\* of the root
C11_Witness ==
    /\ FavoredRun
    /\ Solved
    /\ Len(learnt_clauses) >= 1
    /\ \E Y \in Range(jobs.favor) : \E i \in RequiresClauses :
          /\ clauses[i].kind.a = Root
          /\ CandidatesOf(i)[1] = Y
          /\ AssignedValue(decision_tracker, Y) = Some(FALSE)
          /\ Y \notin Range(result.steps)

\* the first candidates of the Requires clauses whose antecedent is in G
FirstCandidates(G) ==
    {CandidatesOf(i)[1] :
        i \in {j \in RequiresClauses : clauses[j].kind.a \in G /\ CandidatesOf(j) # <<>>}}

\* the root with the first candidate of every requirement of the root, of
\* those candidates, and so forth
RECURSIVE FirstChoice(_)
FirstChoice(G) ==
    IF FirstCandidates(G) \subseteq G THEN G ELSE FirstChoice(G \cup FirstCandidates(G))

\* installing those first candidates, and nothing else, conflicts with no
\* initial clause
FirstChoiceConflictFree == AllSatisfied(InitialLiterals, FirstChoice({Root}))

\* C12: where installing the first candidate of every Requires clause with
\* an installed antecedent conflicts with no clause, solve returns a
\* Transaction that holds, for every Requires clause with an installed
\* antecedent, the first candidate of its sorted list; for asdf 1, asdf 2,
\* efgh 4, efgh 5 and the requests asdf and efgh the steps are asdf 2, efgh 5
C12_FirstCandidatesSelected ==
    /\ (Returned /\ FirstChoiceConflictFree) =>
          /\ result.kind = "transaction"
          /\ \A i \in RequiresClauses :
                clauses[i].kind.a \in InstalledBy(result.steps)
                   => CandidatesOf(i)[1] \in Range(result.steps)
          /\ InstalledBy(result.steps) = FirstChoice({Root})
    /\ (Returned /\ scenario = TestMultiple) => result.steps = <<2, 4>>

\* solve has returned where the first candidates conflict with nothing, an
\* installed solvable has a requirement with a second candidate, and three
\* or more solvables are installed
C12_Witness ==
    /\ Returned
    /\ FirstChoiceConflictFree
    /\ Len(result.steps) >= 3
    /\ \E i \in RequiresClauses :
          /\ clauses[i].kind.a \in Range(result.steps)
          /\ Len(CandidatesOf(i)) >= 2

\* C13: for the pool asdf 4 requiring conflicting 1, asdf 3 requiring
\* conflicting 0, efgh 7 and efgh 6 requiring conflicting 0, conflicting 1,
\* conflicting 0 and the requests asdf and efgh, solve meets a conflict,
\* learns a clause, backtracks and returns a Transaction whose solvables are
\* exactly asdf 3, efgh 7 and conflicting 0
C13_ConflictBacktrack ==
    (Returned /\ scenario = TestConflict) =>
        /\ result.kind = "transaction"
        /\ Range(result.steps) = {2, 3, 6}
        /\ Len(result.steps) = 3
        /\ Len(learnt_clauses) >= 1
        /\ AssignedValue(decision_tracker, 1) = Some(FALSE)

\* solve has returned for that pool after it learnt a clause
C13_Witness ==
    /\ Returned
    /\ scenario = TestConflict
    /\ Len(learnt_clauses) >= 1
    /\ result.kind = "transaction"

\* the solvables other than the root that require a version set without
\* candidates
WithoutCandidates ==
    {clauses[i].kind.a :
        i \in {j \in RequiresClauses : CandidatesOf(j) = <<>> /\ clauses[j].kind.a # Root}}

\* solve, called on a newly constructed Solver, has completed the pass of
\* decide_requires_without_candidates
AssertionsDecided == calls = 1 /\ caller # "none"

\* C14: from the end of the assertion pass, so before the first branching
\* decision, until solve returns, every solvable other than the root that
\* requires a version set without candidates is assigned false at level 1;
\* it is in no returned Transaction, and where it is the first of several
\* candidates of a requirement of an installed solvable another candidate of
\* that requirement is installed; for asdf 4 requiring b, b 1 requiring a
\* missing package and asdf 3 the steps are asdf 3 alone
C14_NoCandidatesForbidden ==
    /\ AssertionsDecided =>
          \A A \in WithoutCandidates :
             /\ AssignedValue(decision_tracker, A) = Some(FALSE)
             /\ Level(decision_tracker, A) = 1
    /\ Solved =>
          /\ WithoutCandidates \cap Range(result.steps) = {}
          /\ \A i \in RequiresClauses :
                (/\ clauses[i].kind.a \in InstalledBy(result.steps)
                 /\ CandidatesOf(i) # <<>>
                 /\ CandidatesOf(i)[1] \in WithoutCandidates)
                   => \E k \in 2 .. Len(CandidatesOf(i)) : CandidatesOf(i)[k] \in Range(result.steps)
    /\ (Returned /\ scenario = TestNonexisting) => result.steps = <<2>>

\* solve has returned a Transaction after a conflict and a backtrack, for a
\* pool where the first candidate of a requirement of the root requires a
\* version set without candidates
C14_Witness ==
    /\ Solved
    /\ Len(learnt_clauses) >= 1
    /\ \E i \in RequiresClauses :
          /\ clauses[i].kind.a = Root
          /\ Len(CandidatesOf(i)) >= 2
          /\ CandidatesOf(i)[1] \in WithoutCandidates

\* the Requires clauses of the root without candidates, by 1-based index
RootWithoutCandidates ==
    {i \in RequiresClauses : clauses[i].kind.a = Root /\ CandidatesOf(i) = <<>>}

\* the least element of a non-empty set of numbers
Least(S) == CHOOSE x \in S : \A y \in S : x <= y

\* C15: when a requirement of the root has no candidates, solve returns a
\* Problem, at level 1 with nothing propagated and no solvable installed by
\* a branching decision, and the Problem holds the Requires clause of the
\* root whose assertion failed, the first one without candidates
C15_MissingTopLevel ==
    (Returned /\ RootWithoutCandidates # {}) =>
        /\ result.kind = "problem"
        /\ level = 1
        /\ caller = "none"
        /\ decision_tracker.propagate_index = 0
        /\ \A k \in DOMAIN decision_tracker.stack :
              decision_tracker.stack[k].value => decision_tracker.stack[k].solvable_id = Root
        /\ Least(RootWithoutCandidates) - 1 \in result.problem

\* solve has returned a Problem for requests one of which has no candidates
\* while another has one
C15_Witness ==
    /\ Returned
    /\ result.kind = "problem"
    /\ RootWithoutCandidates # {}
    /\ \E i \in RequiresClauses : clauses[i].kind.a = Root /\ CandidatesOf(i) # <<>>

\* the initial clauses a clause stands for: itself, or for a learnt clause,
\* transitively, the clauses learnt_why records for it
RECURSIVE InitialCauses(_)
InitialCauses(c) ==
    IF c < learnt_clauses_start THEN {c}
    ELSE UNION {InitialCauses(learnt_why[c - learnt_clauses_start + 1][k]) :
                   k \in DOMAIN learnt_why[c - learnt_clauses_start + 1]}

\* the solvables of the literals of clause c
SolvablesOf(c) == LiteralSolvables(Literals(clauses[c + 1].kind, learnt_clauses, candidates))

\* the decisions after the root's that took part in the conflict: those on
\* a solvable of the conflicting clause or, transitively, of the clause that
\* such a decision was derived from
RECURSIVE InvolvedDecisions(_)
InvolvedDecisions(S) ==
    LET ks   == {k \in 2 .. Len(decision_tracker.stack) : decision_tracker.stack[k].solvable_id \in S}
        more == UNION {SolvablesOf(decision_tracker.stack[k].derived_from) : k \in ks}
    IN  IF more \subseteq S THEN ks ELSE InvolvedDecisions(S \cup more)

\* the involved decisions that were derived from a learnt clause
DerivedFromLearnt ==
    {k \in InvolvedDecisions(SolvablesOf(conflict.clause_id)) :
        decision_tracker.stack[k].derived_from >= learnt_clauses_start}

\* C16: every clause id of a returned Problem is the id of an initial clause,
\* none is the id of a learnt clause; for a learnt clause that the conflict
\* involves the Problem holds the initial clauses that learnt_why,
\* transitively, records for it
C16_ProblemWithoutLearnt ==
    (Returned /\ result.kind = "problem") =>
        /\ \A c \in result.problem :
              /\ 0 <= c /\ c < learnt_clauses_start
              /\ clauses[c + 1].kind.kind # "Learnt"
        /\ conflict.clause_id # Null =>
              /\ InitialCauses(conflict.clause_id) \subseteq result.problem
              /\ \A k \in DerivedFromLearnt :
                    InitialCauses(decision_tracker.stack[k].derived_from) \subseteq result.problem

\* a Problem returned for a conflict at level 1 that involves a decision
\* derived from a learnt clause
C16_Witness ==
    /\ Returned
    /\ result.kind = "problem"
    /\ conflict.clause_id # Null
    /\ DerivedFromLearnt # {}

\* the assignment that makes exactly the solvables of T true satisfies the
\* clauses of ids
SatisfiesIds(ids, T) ==
    \A c \in ids :
       LET lits == Literals(clauses[c + 1].kind, learnt_clauses, candidates)
       IN  \E k \in DOMAIN lits : LiteralHolds(lits[k], T)

\* some assignment with the root installed satisfies all clauses of ids
SatisfiableIds(ids) ==
    \E T \in SUBSET Packages(pool) : SatisfiesIds(ids, {Root} \cup T)

\* C17: the clauses of a returned Problem have, with the root installed, no
\* satisfying assignment
C17_ProblemUnsatisfiable ==
    (Returned /\ result.kind = "problem") => ~SatisfiableIds(result.problem)

\* a Problem of three or more clauses returned after a clause was learnt
C17_Witness ==
    /\ Returned
    /\ result.kind = "problem"
    /\ Cardinality(result.problem) >= 3
    /\ Len(learnt_clauses) >= 1

Popped == {Root} \cup UNION {Range(CandidatesOf(i)) : i \in RequiresClauses}

\* B has the name of the version set vs and a version outside of it
Unmatched(vs, B) == pool.name[B] = vs.name /\ ~Contains(vs, pool.version[B])

\* a constrains entry of A rules out B
Offends(A, B) ==
    \E k \in DOMAIN pool.constrains[A] : Unmatched(pool.constrains[A][k], B)

\* the ids of the initial clauses that are Constrains(A, B, vs)
ConstrainsIds(A, B, vs) ==
    {c \in 0 .. learnt_clauses_start - 1 : clauses[c + 1].kind = ClauseConstrains(A, B, vs)}

\* the ids of the initial clauses other than the Constrains clauses
OtherThanConstrains ==
    {c \in 0 .. learnt_clauses_start - 1 : clauses[c + 1].kind.kind # "Constrains"}

\* every assignment that satisfies the other clauses installs a solvable
\* together with one that its constrains rule out
NeedsOffendingPair ==
    \A T \in SUBSET Packages(pool) :
       SatisfiesIds(OtherThanConstrains, {Root} \cup T) => \E A, B \in T : Offends(A, B)

\* solve, called on a newly constructed Solver, has built its clauses and is
\* about to call run_sat
ClausesBuilt == calls = 1 /\ pc = "run_sat"

\* C19: for every package solvable A the builder pops and every constrains
\* entry vs of A, the clauses the builder leaves hold one Constrains(A, B, vs)
\* for each B of the name of vs with a version outside vs and none for any
\* other B; no returned Transaction holds A together with such a B; solve
\* returns a Problem when every way to satisfy the other clauses installs
\* such a pair, as it does for the pool of test_unsat_constrains
C19_ConstrainsEnforced ==
    /\ ClausesBuilt =>
          \A A \in Popped \ {Root} : \A k \in DOMAIN pool.constrains[A] : \A B \in Packages(pool) :
             LET vs == pool.constrains[A][k]
                 n  == Cardinality({j \in DOMAIN pool.constrains[A] : pool.constrains[A][j] = vs})
             IN  Cardinality(ConstrainsIds(A, B, vs)) = IF Unmatched(vs, B) THEN n ELSE 0
    /\ Solved => \A A, B \in Range(result.steps) : ~Offends(A, B)
    /\ (Returned /\ NeedsOffendingPair) => result.kind = "problem"
    /\ (Returned /\ scenario = TestConstrains) => result.kind = "problem"

\* solve has returned a Problem that holds a Constrains clause, for jobs
\* that the other clauses alone would allow
C19_Witness ==
    /\ Returned
    /\ result.kind = "problem"
    /\ SatisfiableIds(OtherThanConstrains)
    /\ \E c \in result.problem : clauses[c + 1].kind.kind = "Constrains"

\* the candidates, in the pool, of the dependencies of solvable s
DependencyCandidates(s) ==
    UNION {Range(FindMatchingSolvables(pool, DepsOf(pool, jobs.install, s)[k])) :
              k \in DOMAIN DepsOf(pool, jobs.install, s)}

\* the solvables reachable from the root through candidates of dependencies
RECURSIVE ReachableFrom(_)
ReachableFrom(G) ==
    LET more == UNION {DependencyCandidates(s) : s \in G}
    IN  IF more \subseteq G THEN G ELSE ReachableFrom(G \cup more)

Unrelated == Packages(pool) \ ReachableFrom({Root})

\* C20: the antecedent of every Requires and every Constrains clause the
\* builder leaves is reachable from the root through candidates of
\* dependencies; a solvable that is not is never assigned true and is in no
\* returned Transaction
C20_UnrelatedIgnored ==
    /\ ClausesBuilt =>
          \A i \in 1 .. learnt_clauses_start :
             clauses[i].kind.kind \in {"Requires", "Constrains"}
                => clauses[i].kind.a \notin Unrelated
    /\ (calls = 1 /\ pc # "new") =>
          \A s \in Packages(pool) :
             AssignedValue(decision_tracker, s) = Some(TRUE) => s \notin Unrelated
    /\ Solved => Range(result.steps) \cap Unrelated = {}

\* a Transaction of two or more solvables found after a conflict, for a pool
\* with an unrelated solvable that has a dependency of its own
C20_Witness ==
    /\ Solved
    /\ Len(result.steps) >= 2
    /\ Len(learnt_clauses) >= 1
    /\ \E s \in Unrelated : pool.deps[s] # <<>>

(***************************************************************************)
(* Properties of the search: branching, propagation and learning.          *)
(***************************************************************************)
\* the id of the clause at 1-based index i of the clause list
ClauseIdAt(i) == i - 1

\* C21: every branching decision set_propagate_learn records has as its
\* derived_from the id of the Requires clause resolve_dependencies selected
\* for it, the clause at the scan index at which the candidate was found
C21_BranchDerivedFrom ==
    [][(Decide /\ pc' = "propagate") =>
          Last(decision_tracker'.stack).derived_from =
             ClauseIdAt(NextRequires(clauses, candidates, decision_tracker, 1))]_vars

\* the watch chain of solvable s from clause id c on, as the sequence of the
\* clause ids propagate walks through; n bounds the walk, so that a chain
\* that runs in a circle gives a sequence with a repeated id
RECURSIVE ChainFrom(_, _, _)
ChainFrom(s, c, n) ==
    IF c = Null \/ c >= Len(clauses) \/ n = 0 THEN <<>>
    ELSE <<c>> \o ChainFrom(s, NextWatchedClause(clauses[c + 1], s), n - 1)

WatchChain(s) == ChainFrom(s, FirstClauseWatchingSolvable(watches, s), Len(clauses) + 1)

LiteralsOf(c) == Literals(clauses[c + 1].kind, learnt_clauses, candidates)

\* no solvable occurs twice in clause id c
WithoutRepeatedSolvable(c) ==
    Cardinality(LiteralSolvables(LiteralsOf(c))) = Len(LiteralsOf(c))

\* clause id c has watches, and they are of solvables of the clause
WatchesItsOwn(c) ==
    /\ HasWatches(clauses[c + 1])
    /\ Range(clauses[c + 1].watched_literals) \subseteq LiteralSolvables(LiteralsOf(c))

\* the watched literals of clause id c are of two solvables
WatchesTwo(c) == clauses[c + 1].watched_literals[1] # clauses[c + 1].watched_literals[2]

\* the ids of the clauses with watches that watch solvable s
Watching(s) ==
    {c \in 0 .. Len(clauses) - 1 :
        HasWatches(clauses[c + 1]) /\ s \in Range(clauses[c + 1].watched_literals)}

\* the watch chain of every solvable holds the clauses that watch it, each
\* of them once, and no other clause
OnChainsWatched ==
    \A s \in Solvables(pool) :
       LET ch == WatchChain(s)
       IN  Range(ch) = Watching(s) /\ Cardinality(Watching(s)) = Len(ch)

\* solve, called on a newly constructed Solver, is past make_watches
WatchesMade == calls = 1 /\ pc # "new"

\* what the clauses and their watch chains are made of
watched == <<clauses, watches, learnt_clauses, candidates>>

\* a step after which the watch chains are to be intact: make_watches has
\* built them, propagate has moved a watch or analyze has added a learnt
\* clause; no other step changes the clauses or the chains
ChainsChange == WatchesMade' /\ (watched' # watched \/ ~WatchesMade)

BothWatchedFalse(c) ==
    /\ HasWatches(clauses[c + 1])
    /\ \A i \in {1, 2} :
          Eval(WatchedLiteral(clauses[c + 1], i, learnt_clauses, candidates),
               decision_tracker.map) = Some(FALSE)

\* propagate has walked the whole watch chain of the decision on solvable s
Walked(s) ==
    \E k \in DOMAIN decision_tracker.stack :
       /\ decision_tracker.stack[k].solvable_id = s
       /\ \/ k < decision_tracker.propagate_index
          \/ k = decision_tracker.propagate_index /\ pc \in {"watched", "resolve"}
          \/ Solved

\* propagate is not running: it has returned success or a conflict
PropagateReturned == pc \in {"resolve", "conflict"} \/ (pc = "done" /\ caller # "none")

\* C23: whenever propagate has returned no clause with watches has both of
\* its watched literals false, unless propagate reported the conflict for
\* that clause; while decisions wait to be propagated, a clause with both
\* watched literals false watches a solvable whose chain propagate has not
\* walked to its end since the solvable was decided
C23_WatchedNotBothFalse ==
    WatchesMade =>
       \A c \in 0 .. Len(clauses) - 1 :
          BothWatchedFalse(c) =>
             \/ conflict.clause_id = c
             \/ /\ ~PropagateReturned
                /\ \E i \in {1, 2} : ~Walked(clauses[c + 1].watched_literals[i])

\* propagate has reported a conflict above level 1 for a clause with watches,
\* whose watched literals are both false
C23_Witness ==
    /\ WatchesMade
    /\ pc = "conflict"
    /\ level >= 2
    /\ conflict.clause_id # Null
    /\ BothWatchedFalse(conflict.clause_id)

\* the values of the literals of clause id c under the current decisions
ValuesOf(c) == [k \in DOMAIN LiteralsOf(c) |-> Eval(LiteralsOf(c)[k], decision_tracker.map)]

\* every literal of clause id c is false
Falsified(c) == \A k \in DOMAIN ValuesOf(c) : ValuesOf(c)[k] = Some(FALSE)

\* one literal of clause id c is undecided and every other literal is false
UnitPending(c) ==
    \E k \in DOMAIN ValuesOf(c) :
       /\ ValuesOf(c)[k] = None
       /\ \A j \in DOMAIN ValuesOf(c) \ {k} : ValuesOf(c)[j] = Some(FALSE)

\* propagate has returned Ok, in run_sat or in set_propagate_learn, in a
\* solve called on a newly constructed Solver
PropagateSucceeded == calls = 1 /\ pc = "resolve"

LearntHolds(i, T) ==
    \E k \in DOMAIN learnt_clauses[i] : LiteralHolds(learnt_clauses[i][k], T)

\* C25: every learnt clause is a logical consequence of the initial clauses:
\* every assignment that satisfies all initial clauses satisfies every learnt
\* clause
C25_LearntImplied ==
    learnt_clauses # <<>> =>
       \A T \in SUBSET Packages(pool) :
          AllSatisfied(InitialLiterals, {Root} \cup T) =>
             \A i \in DOMAIN learnt_clauses : LearntHolds(i, {Root} \cup T)

\* clauses of two and of three literals were learnt from initial clauses
\* that some assignment satisfies
C25_Witness ==
    /\ Satisfiable
    /\ \E i, j \in DOMAIN learnt_clauses :
          Len(learnt_clauses[i]) = 2 /\ Len(learnt_clauses[j]) >= 3

\* a step in which analyze stores a learnt clause
Learns == calls = 1 /\ Len(learnt_clauses') = Len(learnt_clauses) + 1

\* the clause analyze has stored in the step
Learnt == Last(learnt_clauses')

\* the literal is false under the decisions held when analyze is called
FalseAtConflict(lit) == Eval(lit, decision_tracker.map) = Some(FALSE)

\* C26: a learnt clause ends with its one literal of the level of the
\* conflict; every other literal is of a solvable decided at a lower level,
\* no solvable occurs twice, and every literal is false under the decisions
\* held when the conflict was detected
C26_LearntClauseShape ==
    [][Learns =>
          /\ Level(decision_tracker, Last(Learnt).solvable_id) = level
          /\ \A k \in 1 .. Len(Learnt) - 1 :
                /\ Level(decision_tracker, Learnt[k].solvable_id) >= 1
                /\ Level(decision_tracker, Learnt[k].solvable_id) < level
          /\ \A k \in DOMAIN Learnt : FalseAtConflict(Learnt[k])
          /\ Cardinality(LiteralSolvables(Learnt)) = Len(Learnt)]_vars

\* analyze has just stored a clause and set_propagate_learn has assigned its
\* last literal
JustLearnt ==
    /\ calls = 1
    /\ pc = "propagate"
    /\ learnt_clauses # <<>>
    /\ clauses[Len(clauses)].kind.kind = "Learnt"
    /\ Last(decision_tracker.stack).solvable_id = Last(Last(learnt_clauses)).solvable_id
    /\ Last(decision_tracker.stack).derived_from = Len(clauses) - 1

\* the clause just stored has one literal of the conflict level and two of
\* lower levels
C26_Witness == JustLearnt /\ Len(Last(learnt_clauses)) >= 3

\* the highest level, before the step, among the solvables of the literals
\* of the learnt clause other than the last; 1 when there is none
HighestLower ==
    LET lower == {Level(decision_tracker, Learnt[k].solvable_id) : k \in 1 .. Len(Learnt) - 1}
    IN  IF lower = {} THEN 1 ELSE CHOOSE l \in lower : \A m \in lower : m <= l

\* the stack analyze returns with: the stack after the step without the
\* decision set_propagate_learn has added for the returned literal
ReturnedStack == Front(decision_tracker'.stack)

\* C27: analyze, called for a conflict at level L >= 2, returns the highest
\* level t among the non-asserting literals of the learnt clause, or 1, with
\* 1 <= t < L; the stack then holds exactly the decisions that had a level
\* <= t, with value, level and derived_from unchanged, and no solvable is
\* decided at a level above t
C27_BacktrackTarget ==
    [][Learns =>
          /\ level >= 2
          /\ level' = HighestLower
          /\ 1 <= level' /\ level' < level
          /\ Len(ReturnedStack) <= Len(decision_tracker.stack)
          /\ ReturnedStack = SubSeq(decision_tracker.stack, 1, Len(ReturnedStack))
          /\ \A k \in DOMAIN decision_tracker.stack :
                Level(decision_tracker, decision_tracker.stack[k].solvable_id) <= level'
                   <=> k <= Len(ReturnedStack)
          /\ \A k \in DOMAIN ReturnedStack :
                decision_tracker'.map[ReturnedStack[k].solvable_id] =
                   decision_tracker.map[ReturnedStack[k].solvable_id]
          /\ \A s \in Solvables(pool) : Level(decision_tracker', s) <= level'
          /\ \A s \in Solvables(pool) \ {Last(Learnt).solvable_id} :
                AssignedValue(decision_tracker', s) # None
                   => \E k \in DOMAIN ReturnedStack : ReturnedStack[k].solvable_id = s]_vars

\* analyze has just returned a level above 1, the level of a literal of the
\* stored clause other than the last
C27_Witness ==
    /\ JustLearnt
    /\ level >= 2
    /\ \E k \in 1 .. Len(Last(learnt_clauses)) - 1 :
          Level(decision_tracker, Last(learnt_clauses)[k].solvable_id) = level

\* a step of set_propagate_learn from a conflict above level 1: analyze is
\* called and the literal it returns is assigned
Analyzes == calls = 1 /\ pc = "conflict" /\ caller = "set_propagate_learn" /\ level # 1

\* C28: the solvable of the literal analyze returns is undecided and every
\* other literal of the learnt clause is false, so the assignment of the
\* literal's satisfying value at the returned level succeeds and leaves the
\* learnt clause satisfied
C28_AssertingLiteralAssigned ==
    [][Analyzes =>
          /\ pc' = "propagate"
          /\ Learns
          /\ \A k \in DOMAIN ReturnedStack :
                ReturnedStack[k].solvable_id # Last(Learnt).solvable_id
          /\ Last(decision_tracker'.stack) =
                Decision(Last(Learnt).solvable_id, SatisfyingValue(Last(Learnt)),
                         Len(clauses') - 1)
          /\ clauses'[Len(clauses')].kind = ClauseLearnt(Len(learnt_clauses') - 1)
          /\ Level(decision_tracker', Last(Learnt).solvable_id) = level'
          /\ \A k \in 1 .. Len(Learnt) - 1 :
                Eval(Learnt[k], decision_tracker'.map) = Some(FALSE)
          /\ Eval(Last(Learnt), decision_tracker'.map) = Some(TRUE)]_vars

\* the last literal of the clause just stored is true at the level analyze
\* returned and the other literals of the clause are false
C28_Witness ==
    /\ JustLearnt
    /\ Len(Last(learnt_clauses)) >= 2
    /\ Eval(Last(Last(learnt_clauses)), decision_tracker.map) = Some(TRUE)
    /\ Level(decision_tracker, Last(Last(learnt_clauses)).solvable_id) = level
    /\ \A k \in 1 .. Len(Last(learnt_clauses)) - 1 :
          Eval(Last(learnt_clauses)[k], decision_tracker.map) = Some(FALSE)

\* the clause at 1-based index i is a Requires clause whose solvable is
\* assigned true and none of whose candidates is assigned true
Unfulfilled(i) ==
    /\ clauses[i].kind.kind = "Requires"
    /\ AssignedValue(decision_tracker, clauses[i].kind.a) = Some(TRUE)
    /\ \A k \in DOMAIN CandidatesOf(i) :
          AssignedValue(decision_tracker, CandidatesOf(i)[k]) # Some(TRUE)

\* resolve_dependencies is entered, or entered again after a round of
\* set_propagate_learn, and some Requires clause is unfulfilled
Branches == calls = 1 /\ pc = "resolve" /\ \E i \in DOMAIN clauses : Unfulfilled(i)

\* the decision pushed in the step
Branched == Last(decision_tracker'.stack)

\* C29: a branching decision assigns true to the first undecided candidate
\* of the lowest-index Requires clause whose solvable is assigned true and
\* none of whose candidates is, at the previous level plus one; the clauses
\* are scanned from index 0 in every round
C29_BranchingRule ==
    [][Branches =>
          /\ pc' = "propagate"
          /\ level' = level + 1
          /\ Front(decision_tracker'.stack) = decision_tracker.stack
          /\ Branched.value = TRUE
          /\ Level(decision_tracker', Branched.solvable_id) = level + 1
          /\ \E i \in DOMAIN clauses :
                /\ Unfulfilled(i)
                /\ \A j \in 1 .. i - 1 : ~Unfulfilled(j)
                /\ \E k \in DOMAIN CandidatesOf(i) :
                      /\ CandidatesOf(i)[k] = Branched.solvable_id
                      /\ AssignedValue(decision_tracker, CandidatesOf(i)[k]) = None
                      /\ \A m \in 1 .. k - 1 :
                            AssignedValue(decision_tracker, CandidatesOf(i)[m]) = Some(FALSE)]_vars

\* after a round that learnt a clause, a decision was made at level 3 or
\* above for a candidate that is not the first of its Requires clause
C29_Witness ==
    /\ calls = 1
    /\ pc = "propagate"
    /\ caller = "set_propagate_learn"
    /\ learnt_clauses # <<>>
    /\ level >= 3
    /\ decision_tracker.propagate_index = Len(decision_tracker.stack) - 1
    /\ LET d == Last(decision_tracker.stack)
       IN  /\ d.value = TRUE
           /\ Level(decision_tracker, d.solvable_id) = level
           /\ d.derived_from \in 1 .. learnt_clauses_start
           /\ clauses[d.derived_from].kind.kind = "Requires"
           /\ \E k \in 2 .. Len(CandidatesOf(d.derived_from)) :
                 CandidatesOf(d.derived_from)[k] = d.solvable_id

(***************************************************************************)
(* The decision tracker on its own: decisions are added and undone in any  *)
(* order on the tracker of a newly constructed Solver.                     *)
(***************************************************************************)
TrackerInit ==
    /\ NewSolver(TestNested, <<>>)
    /\ baseline = NoResult
    /\ calls = 0

\* the levels decisions are added at: the current level and the next
AddLevels == {l \in {level, level + 1} : l >= 1}

\* try_add_decision is called with any solvable and value at the current or
\* the next level
TrackerAdd ==
    /\ \E s \in Solvables(pool), v \in BOOLEAN, lvl \in AddLevels :
          LET r == TryAddDecision(decision_tracker, Decision(s, v, Len(decision_tracker.stack)),
                                  lvl)
          IN  /\ decision_tracker' = r.t
              /\ level' = IF r.changed THEN lvl ELSE level
    /\ UNCHANGED <<scenario, jobs, clauses, watches, learnt_clauses_start, learnt_clauses,
                   learnt_why, candidates, pc, caller, chain, conflict, result, baseline, calls>>

\* undo_last is called; the level falls back to the level of the new top
TrackerUndo ==
    /\ decision_tracker.stack # <<>>
    /\ decision_tracker' = UndoLast(decision_tracker).t
    /\ level' = IF Len(decision_tracker.stack) = 1 THEN 0
                ELSE Level(decision_tracker,
                           decision_tracker.stack[Len(decision_tracker.stack) - 1].solvable_id)
    /\ UNCHANGED <<scenario, jobs, clauses, watches, learnt_clauses_start, learnt_clauses,
                   learnt_why, candidates, pc, caller, chain, conflict, result, baseline, calls>>

TrackerNext == TrackerAdd \/ TrackerUndo

TrackerSpec == TrackerInit /\ [][TrackerNext]_vars

\* "changed": r is the outcome of try_add_decision for the decision d at the
\* level lvl; the value is recorded at the level, the decision is pushed,
\* nothing else changes
OutcomeChanged(r, d, lvl) ==
    /\ r.ok
    /\ r.changed
    /\ r.t.stack = Append(decision_tracker.stack, d)
    /\ AssignedValue(r.t, d.solvable_id) = Some(d.value)
    /\ Level(r.t, d.solvable_id) = lvl
    /\ r.t.map = [decision_tracker.map EXCEPT ![d.solvable_id] = r.t.map[d.solvable_id]]
    /\ r.t.propagate_index = decision_tracker.propagate_index

\* "unchanged": nothing is recorded
OutcomeUnchanged(r) == r.ok /\ ~r.changed /\ r.t = decision_tracker

\* failure: nothing is recorded
OutcomeFailed(r) == ~r.ok /\ r.t = decision_tracker

\* C30: try_add_decision records the value of an undecided solvable at the
\* level, pushes the decision and reports changed; for a solvable that has
\* the value it reports unchanged, for a solvable that has the opposite
\* value it fails, and in both cases it leaves the stack and the map, with
\* the recorded levels, as they are
C30_TryAddDecisionOutcomes ==
    \A s \in Solvables(pool), v \in BOOLEAN, lvl \in AddLevels :
       LET d   == Decision(s, v, Len(clauses) - 1)
           r   == TryAddDecision(decision_tracker, d, lvl)
           cur == AssignedValue(decision_tracker, s)
       IN  IF cur = None THEN OutcomeChanged(r, d, lvl)
           ELSE IF cur = Some(v) THEN OutcomeUnchanged(r)
           ELSE OutcomeFailed(r)

\* decisions were added at two levels or more: a solvable is decided true
\* above level 1, another is decided false and another is undecided, so each
\* of the three outcomes has its case
C30_Witness ==
    /\ Len(decision_tracker.stack) >= 3
    /\ \E s \in Solvables(pool) : AssignedValue(decision_tracker, s) = None
    /\ \E s \in Solvables(pool) :
          AssignedValue(decision_tracker, s) = Some(TRUE) /\ Level(decision_tracker, s) >= 2
    /\ \E s \in Solvables(pool) : AssignedValue(decision_tracker, s) = Some(FALSE)

(***************************************************************************)
(* Properties of the decision tracker and of the clause list.              *)
(***************************************************************************)
\* the positions of solvable s on the decision stack
PositionsOf(s) == {k \in DOMAIN decision_tracker.stack : decision_tracker.stack[k].solvable_id = s}

\* the outcome of undo_last on the decision tracker as it is
Undone == UndoLast(decision_tracker)

\* the decision map and the decision stack of the tracker as it is agree, and
\* undo_last would remove the top decision and reset its map entry alone
MapAgreesWithStack ==
    /\ \A s \in Solvables(pool) :
          /\ Cardinality(PositionsOf(s)) <= 1
          /\ \A k \in PositionsOf(s) :
                /\ AssignedValue(decision_tracker, s) = Some(decision_tracker.stack[k].value)
                /\ Level(decision_tracker, s) >= 1
          /\ PositionsOf(s) = {} =>
                /\ AssignedValue(decision_tracker, s) = None
                /\ Level(decision_tracker, s) = 0
    /\ \A k \in DOMAIN decision_tracker.stack :
          decision_tracker.stack[k].solvable_id \in Solvables(pool)
    /\ decision_tracker.stack # <<>> =>
          /\ Undone.decision = Last(decision_tracker.stack)
          /\ Undone.level = Level(decision_tracker, Last(decision_tracker.stack).solvable_id)
          /\ Undone.t.stack = Front(decision_tracker.stack)
          /\ Undone.t.map = [decision_tracker.map EXCEPT
                                ![Last(decision_tracker.stack).solvable_id] = Undecided]

\* C31: the decision map and the decision stack agree: no solvable is on the
\* stack twice, a solvable is on the stack with a value exactly when the map
\* gives it that value, at a level of 1 or above, a solvable that is not on
\* the stack is undecided in the map, and undo_last removes the top decision
\* and resets the map entry of its solvable and no other
C31_MapAgreesWithStack == []MapAgreesWithStack

\* after a backtrack: a clause was learnt, three or more decisions are on
\* the stack above level 1 and a solvable of a learnt clause is undecided
C31_Witness ==
    /\ calls = 1
    /\ learnt_clauses # <<>>
    /\ level >= 2
    /\ Len(decision_tracker.stack) >= 3
    /\ \E i \in DOMAIN learnt_clauses : \E k \in DOMAIN learnt_clauses[i] :
          AssignedValue(decision_tracker, learnt_clauses[i][k].solvable_id) = None

\* solve has been entered and the next call of solve has not begun
InSolve == pc # "new"

\* the levels recorded in the map as it is lie between 1 and the current level
LevelsWithinCurrent ==
    InSolve =>
       \A s \in Solvables(pool) :
          AssignedValue(decision_tracker, s) # None =>
             1 <= Level(decision_tracker, s) /\ Level(decision_tracker, s) <= level

\* C32: in a solve, the level the decision map records for an assigned solvable is at
\* least 1 and at most the current level of run_sat / set_propagate_learn
C32_LevelsWithinCurrent == []LevelsWithinCurrent

\* after a backtrack to level 2 or above, solvables are assigned at the
\* current level and at a lower one
C32_Witness ==
    /\ calls = 1
    /\ learnt_clauses # <<>>
    /\ level >= 2
    /\ pc = "watched"
    /\ \E s, u \in Solvables(pool) :
          /\ Level(decision_tracker, s) = level
          /\ Level(decision_tracker, u) >= 1
          /\ Level(decision_tracker, u) < level

\* run_sat has made its first step and the next call of solve has not begun
RootAsserted == pc \notin {"new", "run_sat"}

\* the root is the bottom entry of the stack as it is, at level 1, and is nowhere
\* else on it
RootAtBottom ==
    RootAsserted =>
       /\ decision_tracker.stack # <<>>
       /\ decision_tracker.stack[1] = Decision(Root, TRUE, InstallRootId)
       /\ PositionsOf(Root) = {1}
       /\ AssignedValue(decision_tracker, Root) = Some(TRUE)
       /\ Level(decision_tracker, Root) = 1

\* C33: from the first step of run_sat until solve returns the bottom entry
\* of the decision stack is (root, true, InstallRoot) at level 1 and the root
\* is nowhere else on the stack
C33_RootAtBottom == []RootAtBottom

\* analyze has just learnt a clause of one literal and gone back to level 1
C33_Witness ==
    /\ JustLearnt
    /\ level = 1
    /\ Len(Last(learnt_clauses)) = 1
    /\ Len(decision_tracker.stack) >= 2

\* a step of a solve, from its first step to its return
InRun == pc # "new" /\ pc' # "new"

\* the stack of the state is kept by the step, which may add decisions
StackKept ==
    /\ Len(decision_tracker'.stack) >= Len(decision_tracker.stack)
    /\ SubSeq(decision_tracker'.stack, 1, Len(decision_tracker.stack)) = decision_tracker.stack

\* C34: decisions are handed to propagation in the order they were added,
\* each at most once while it is on the stack: the cursor moves forward by
\* one, to the decision propagate takes next, and never back, except that a
\* backtrack puts it at the end of the surviving stack; propagate returns Ok
\* only when the cursor has passed every decision
C34_PropagationOrder ==
    [][InRun =>
          /\ decision_tracker.propagate_index <= Len(decision_tracker.stack)
          /\ StackKept =>
                \/ /\ decision_tracker'.propagate_index = decision_tracker.propagate_index
                   /\ chain'.pkg \in {chain.pkg, Null}
                \/ /\ decision_tracker'.propagate_index = decision_tracker.propagate_index + 1
                   /\ pc = "watched" /\ pc' = "chain"
                   /\ chain'.pkg =
                         decision_tracker.stack[decision_tracker.propagate_index + 1].solvable_id
          /\ ~StackKept =>
                /\ ReturnedStack = SubSeq(decision_tracker.stack, 1, Len(ReturnedStack))
                /\ decision_tracker'.propagate_index = Len(ReturnedStack)
                /\ decision_tracker.propagate_index >= Len(ReturnedStack)
                /\ pc' = "propagate"
          /\ (pc = "watched" /\ pc' = "resolve") =>
                decision_tracker.propagate_index = Len(decision_tracker.stack)]_vars

\* after a backtrack that left three or more decisions, the literal
\* assigned for the learnt clause is the decision being propagated
C34_Witness ==
    /\ calls = 1
    /\ pc = "chain"
    /\ learnt_clauses # <<>>
    /\ chain.pkg = Last(Last(learnt_clauses)).solvable_id
    /\ decision_tracker.propagate_index >= 4
    /\ decision_tracker.stack[decision_tracker.propagate_index].solvable_id = chain.pkg
    /\ decision_tracker.stack[decision_tracker.propagate_index].derived_from = Len(clauses) - 1

\* the clauses below learnt_clauses_start are of the builder's kinds and the
\* k-th clause from learnt_clauses_start on is Learnt(k), with an entry k in
\* the learnt-clause store and in learnt_why
Partitioned ==
    /\ learnt_clauses_start \in 1 .. Len(clauses)
    /\ \A i \in 1 .. learnt_clauses_start : clauses[i].kind.kind # "Learnt"
    /\ \A i \in learnt_clauses_start + 1 .. Len(clauses) :
          clauses[i].kind = ClauseLearnt(i - learnt_clauses_start - 1)
    /\ Len(learnt_clauses) = Len(clauses) - learnt_clauses_start
    /\ Len(learnt_why) = Len(clauses) - learnt_clauses_start

\* C35: after the builder has finished, every clause below
\* learnt_clauses_start is non-learnt and the k-th clause at or above it is
\* Learnt(k), entry k of the learnt-clause store and of learnt_why; after
\* that point only analyze appends clauses, one at a time
C35_LearntClausesAfterStart ==
    [][pc' # "new" =>
          /\ Partitioned'
          /\ pc # "new" =>
                /\ learnt_clauses_start' = learnt_clauses_start
                /\ Len(clauses') >= Len(clauses)
                /\ \A i \in DOMAIN clauses : clauses'[i].kind = clauses[i].kind
                /\ Len(clauses') # Len(clauses) =>
                      Analyzes /\ Len(clauses') = Len(clauses) + 1]_vars

\* two clauses or more were learnt in a solve
C35_Witness == calls = 1 /\ pc # "new" /\ Len(learnt_clauses) >= 2 /\ Partitioned

\* propagate has returned a conflict for which analyze_unsolvable is called:
\* in run_sat, or in set_propagate_learn at level 1
UnsolvableDue == pc = "conflict" /\ (caller = "run_sat" \/ level = 1)

\* the top of the decision stack is a decision of level 1
TopAtLevelOne ==
    /\ decision_tracker.stack # <<>>
    /\ Level(decision_tracker, Last(decision_tracker.stack).solvable_id) = 1

\* where analyze_unsolvable is due or has run the top of the stack is of level 1
UnsolvableAtLevelOne ==
    /\ UnsolvableDue => TopAtLevelOne
    /\ result.kind = "problem" => TopAtLevelOne
    /\ ~result.debug_assert_failed

\* C36: whenever analyze_unsolvable is called, from the assertion pass, from
\* the propagation of run_sat or from a conflict at level 1 in
\* set_propagate_learn, the stack is not empty and its top decision is of
\* level 1: the assertion on the highest level holds
C36_UnsolvableAtLevelOne == []UnsolvableAtLevelOne

\* set_propagate_learn meets a conflict at level 1 after a backtrack
C36_Witness ==
    /\ calls = 1
    /\ UnsolvableDue
    /\ caller = "set_propagate_learn"
    /\ learnt_clauses # <<>>
    /\ Len(decision_tracker.stack) >= 3

\* the solvables the builder processes: the root and what is reachable from
\* it through candidates of dependencies
Processed == ReachableFrom({Root})

\* the clauses Requires(s, vs) of the builder
RequiresOf(s, vs) == {i \in 1 .. learnt_clauses_start : clauses[i].kind = ClauseRequires(s, vs)}

\* the entries vs of the dependency list of s
EntriesOf(s, vs) ==
    {k \in DOMAIN DepsOf(pool, jobs.install, s) : DepsOf(pool, jobs.install, s)[k] = vs}

\* the clause list as built holds one Requires clause per processed solvable and
\* entry of its dependency list, and the cyclic pool solves to a 2, b 5
OneRequiresPerDependency ==
    /\ ClausesBuilt =>
          /\ \A s \in Processed : \A k \in DOMAIN DepsOf(pool, jobs.install, s) :
                LET vs == DepsOf(pool, jobs.install, s)[k]
                IN  Cardinality(RequiresOf(s, vs)) = Cardinality(EntriesOf(s, vs))
          /\ \A i \in 1 .. learnt_clauses_start :
                clauses[i].kind.kind = "Requires" =>
                   /\ clauses[i].kind.a \in Processed
                   /\ EntriesOf(clauses[i].kind.a, clauses[i].kind.vs) # {}
    /\ (Returned /\ scenario = TestCyclic) => result = Transaction(<<1, 2>>)

\* C37: the builder processes the root and every solvable reachable from it
\* once, also through cycles: it leaves exactly one Requires clause for each
\* entry of the dependency list of each processed solvable and no other
\* Requires clause; for the pool a 2 requiring b 0..10, b 5 requiring a 2..4
\* and the request a 0..100 solve returns a 2, then b 5
C37_OneRequiresPerDependency == []OneRequiresPerDependency

\* solve has returned for the cyclic pool, whose builder left the Requires
\* clauses of the root, of a 2 and of b 5
C37_Witness ==
    /\ Returned
    /\ scenario = TestCyclic
    /\ Processed = {Root, 1, 2}
    /\ Cardinality(RequiresClauses) = 3

\* ---------------------------------------------------------------------
\* Repeated solves, the encoding of the decision map, and the conflict
\* that propagate reports.

\* the second call of solve on the same Solver with the same jobs has returned
SolvedAgain == pc = "done" /\ calls = 2 /\ baseline.kind # "none"

\* C38: solve is repeatable: a second call of solve on the same Solver with
\* the same jobs returns the result the first call returned.
C38_SolveRepeatable == SolvedAgain => result = baseline

\* the decision map on its own: set and reset are called with any solvable,
\* value and level on the map of a newly constructed Solver
MapInit ==
    /\ NewSolver(TestMissingTopLevel, <<>>)
    /\ baseline = NoResult
    /\ calls = 0

\* the levels a u32 holds
Levels == 0 .. LevelRange - 1

MapSetStep ==
    /\ \E x \in Solvables(pool), v \in BOOLEAN, l \in Levels :
          decision_tracker' = [decision_tracker EXCEPT !.map = MapSet(@, x, v, l)]
    /\ UNCHANGED <<scenario, jobs, clauses, watches, learnt_clauses_start, learnt_clauses,
                   learnt_why, candidates, pc, level, caller, chain, conflict, result,
                   baseline, calls>>

MapResetStep ==
    /\ \E x \in Solvables(pool) :
          decision_tracker' = [decision_tracker EXCEPT !.map = MapReset(@, x)]
    /\ UNCHANGED <<scenario, jobs, clauses, watches, learnt_clauses_start, learnt_clauses,
                   learnt_why, candidates, pc, level, caller, chain, conflict, result,
                   baseline, calls>>

MapNext == MapSetStep \/ MapResetStep

MapSpec == MapInit /\ [][MapNext]_vars

\* the other solvables' entries of the maps m and n are the same
SameElsewhere(m, n, x) ==
    /\ DOMAIN m = DOMAIN n
    /\ \A y \in DOMAIN n : y # x => m[y] = n[y]

\* C39: the encoding of the decision map round-trips: on any map, for every
\* solvable x and both values, set(x, value, level) with a level of at least
\* 1 makes value(x) Some(value) and level(x) the level; set with level 0
\* makes x undecided at level 0 whichever the value; reset(x) makes value(x)
\* None and level(x) 0; set and reset leave every other entry as it was.
C39_EncodingRoundTrips ==
    LET map == decision_tracker.map
    IN  \A x \in DOMAIN map :
           /\ \A v \in BOOLEAN, l \in Levels :
                 LET m == MapSet(map, x, v, l)
                 IN  /\ l >= 1 => MapValue(m, x) = Some(v) /\ MapLevel(m, x) = l
                     /\ l = 0 => MapValue(m, x) = None /\ MapLevel(m, x) = 0
                     /\ SameElsewhere(m, map, x)
           /\ LET m == MapReset(map, x)
              IN  /\ MapValue(m, x) = None
                  /\ MapLevel(m, x) = 0
                  /\ SameElsewhere(m, map, x)

\* set has recorded false at the highest level for one solvable and true at
\* the highest level for another
C39_Witness ==
    /\ decision_tracker.stack = <<>>
    /\ MapValue(decision_tracker.map, 0) = Some(TRUE)
    /\ MapLevel(decision_tracker.map, 0) = LevelRange - 1
    /\ MapValue(decision_tracker.map, 1) = Some(FALSE)
    /\ MapLevel(decision_tracker.map, 1) = LevelRange - 1

\* propagate reports a conflict found through the watched clause of the walk
ReportsWatchedConflict == pc = "chain" /\ pc' = "conflict"

\* the watched literal of the clause of the walk that is not the one of the
\* solvable being propagated
RemainingWatch ==
    LET clause == clauses[chain.clause_id + 1]
        watch_index == WatchTurnedFalse(clause, chain.pkg, decision_tracker.map,
                                        learnt_clauses, candidates)
    IN  WatchedLiteral(clause, 3 - watch_index, learnt_clauses, candidates)

\* the tuple names the solvable of the remaining watched literal and the
\* clause being processed, and the tracker is as it was
ConflictNamesWatch ==
    /\ conflict'.solvable_id = RemainingWatch.solvable_id
    /\ conflict'.clause_id = chain.clause_id
    /\ decision_tracker' = decision_tracker

\* the tuple's value is the remaining literal's satisfying value, the opposite
\* of the solvable's current value
ConflictValueAttempted ==
    /\ conflict'.value = SatisfyingValue(RemainingWatch)
    /\ MapValue(decision_tracker.map, RemainingWatch.solvable_id) = Some(~conflict'.value)

\* C40: when propagate reports a conflict found through a watched clause, the
\* tuple names the solvable of the remaining watched literal, the value
\* propagate attempted to assign to it (the literal's satisfying value, the
\* opposite of the solvable's current value) and the id of the clause being
\* processed, and the stack and the map are as before the failed assignment.
C40_ConflictTuple ==
    [][ReportsWatchedConflict => ConflictNamesWatch /\ ConflictValueAttempted]_vars

====
